---- MODULE Spec2Model ----
(***************************************************************************)
(* sebnf2pars: the semantic analyzer between the EBNF parser and the       *)
(* emitters (sebnf2parsYACC.cc, ebnfClasses.cc, ebnfClasses.hh).           *)
(*                                                                         *)
(* Pointers are indices: a production pointer is an index into the         *)
(* productions list, an expression pointer is an index into heap (the      *)
(* expression objects in allocation order); NULL is 0.  commaExp is the    *)
(* expression allocated before main runs, heap[1].  Strings are strings;   *)
(* strcmp is computed from character codes.                                *)
(***************************************************************************)
EXTENDS Integers, Sequences, FiniteSets, TLC

VARIABLES
  file,           \* the grammar file: the token stream per production, and the attribute block
  pc,             \* the call of main that runs next
  yyin,           \* the place of yyparse in the file: the next production to read
  heap,           \* the expression objects, in allocation order
  productions,    \* prodList productions
  classNames,     \* char * classNames[26][CLASSSIZE], per letter the non-null prefix
  tokenNames,     \* char * tokenNames[26][LETTERSIZE], per letter the non-null prefix
  tokenLexes,     \* char * tokenLexes[26][LETTERSIZE], per letter the non-null prefix
  terminalNames,  \* char * terminalNames[LETTERSIZE], the non-null prefix
  err,            \* the diagnostic the run ended with, "" when none
  ran,            \* the calls main has made so far, in order
  passes          \* per pass of printCppClasses that printed, the productions it printed, in order

vars == <<file, pc, yyin, heap, productions, classNames, tokenNames, tokenLexes,
          terminalNames, err, ran, passes>>

(***************************************************************************)
(* Bounds of the model.                                                    *)
(***************************************************************************)
MaxProds == 3

\* the most productions a file of SpecLattice has besides c
MaxSupers == 4

\* the most expressions the second definition of a production of SpecList has
MaxExps == 3

\* the most optional productions a file of SpecOptional ends with
MaxOpts == 3

\* the most lines the attribute block of a file of SpecAtts has
MaxLines == 2

\* the most productions a file of SpecEmit has besides c
MaxEmit == 3

\* the most calls a run of SpecNames makes
MaxCalls == 3

\* the most productions a file of SpecBoundary has besides c
MaxFirst == 2

\* the most lines the attribute block of a file of SpecInherit has
MaxInherit == 2

\* the most productions after c = ',' a file of SpecCycle has
MaxCycle == 3

\* the most productions after c = ',' a file of SpecSpell has
MaxSpell == 3

\* the most optional parents a file of SpecTransfer ends with
MaxTransfer == 2

(***************************************************************************)
(* Program constants.                                                      *)
(***************************************************************************)
KEYWORD == 260
NONTERMINAL == 262
ONECHAR == 263
TERMINAL == 266
TERMINALSTRING == 267
TWOCHAR == 268
CLASSSIZE == 400
LETTERSIZE == 200
NULL == 0
commaExp == 1

Letters ==
  {"A", "B", "C", "D", "E", "F", "G", "H", "I", "J", "K", "L", "M",
   "N", "O", "P", "Q", "R", "S", "T", "U", "V", "W", "X", "Y", "Z"}

LowerLetters ==
  {"a", "b", "c", "d", "e", "f", "g", "h", "i", "j", "k", "l", "m",
   "n", "o", "p", "q", "r", "s", "t", "u", "v", "w", "x", "y", "z"}

(***************************************************************************)
(* C strings: character codes and strcmp.                                  *)
(***************************************************************************)
UpperChars == "ABCDEFGHIJKLMNOPQRSTUVWXYZ"
LowerChars == "abcdefghijklmnopqrstuvwxyz"
DigitChars == "0123456789"
PunctChars == "$%&'()*+,-./"

\* the characters of str with the codes base + 1, base + 2, ...
CodesOf(str, base) ==
  [ch \in {SubSeq(str, i, i) : i \in 1..Len(str)} |->
     base + (CHOOSE i \in 1..Len(str) : SubSeq(str, i, i) = ch)]

CharCodes ==
  CodesOf(UpperChars, 64) @@ CodesOf(LowerChars, 96) @@
  CodesOf(DigitChars, 47) @@ CodesOf(PunctChars, 35) @@ CodesOf("_", 94)

\* the character code of a one-character string
CharCode(ch) == CharCodes[ch]

\* s[i] of a C string, 0-based; the terminating 0 at i = strlen(s)
CharAt(s, i) == IF i < Len(s) THEN CharCode(SubSeq(s, i + 1, i + 1)) ELSE 0

RECURSIVE strcmpFrom(_, _, _)
strcmpFrom(a, b, i) ==
  IF CharAt(a, i) # CharAt(b, i) THEN CharAt(a, i) - CharAt(b, i)
  ELSE IF CharAt(a, i) = 0 THEN 0
  ELSE strcmpFrom(a, b, i + 1)

\* strcmp(a, b): negative, 0 or positive
strcmp(a, b) == IF a = b THEN 0 ELSE strcmpFrom(a, b, 0)

\* strcmp(a, b) == 0
same(a, b) == a = b

(***************************************************************************)
(* The name tables.                                                        *)
(***************************************************************************)
InsertAt(seq, n, x) ==
  [i \in 1..(Len(seq) + 1) |->
     IF i < n THEN seq[i] ELSE IF i = n THEN x ELSE seq[i - 1]]

\* the least of a set of places
leastOf(places) == CHOOSE n \in places : \A m \in places : n <= m

\* the place stop of a bucket, negated when it holds name
placeOf(names, name, stop) ==
  IF stop <= Len(names) /\ same(name, names[stop]) THEN 0 - stop ELSE stop

\* the loop of recordToken / recordTerminal begun at n: the 1-based place where
\* it stops, negated when the name is already recorded
ScanNames(names, name, n) ==
  placeOf(names, name,
          leastOf({k \in n..(Len(names) + 1) :
                     \/ k > Len(names)
                     \/ strcmp(name, names[k]) <= 0}))

\* the names after recording name in a bucket of capacity size
recordName(names, name, size) ==
  LET n == ScanNames(names, name, 1)
  IN IF n < 0 THEN names
     ELSE IF Len(names) >= size THEN names
     ELSE InsertAt(names, n, name)

\* recording name exits with "Too many ..."
recordOverflows(names, name, size) ==
  ScanNames(names, name, 1) > 0 /\ Len(names) >= size

FirstLetter(name) == SubSeq(name, 1, 1)

recordToken(table, tokenName) ==
  [table EXCEPT ![FirstLetter(tokenName)] = recordName(@, tokenName, LETTERSIZE)]

recordTerminal(names, terminalName) == recordName(names, terminalName, LETTERSIZE)

recordClass(table, className) ==
  [table EXCEPT ![FirstLetter(className)] = recordName(@, className, CLASSSIZE)]

(***************************************************************************)
(* The name tables as the arrays they are: char * letterNames[size], the   *)
(* places counted from 0 and "" the null pointer.                          *)
(***************************************************************************)
\* the array that holds names in its first places
letterNamesOf(names, size) ==
  [k \in 0..(size - 1) |-> IF k < Len(names) THEN names[k + 1] ELSE ""]

\* where a loop "for (k = n; (k < size) && letterNames[k]; k++)" ends: the
\* first place from n on that holds the null pointer, or size
namesBefore(letterNames, size, n) ==
  leastOf({k \in n..size : k = size \/ letterNames[k] = ""})

\* the names the readers of the array see
namesOf(letterNames, size) ==
  [i \in 1..namesBefore(letterNames, size, 0) |-> letterNames[i - 1]]

scanLetterNames_end(letterNames, name, size, n) ==
  leastOf({k \in n..size :
             \/ k = size
             \/ letterNames[k] = ""
             \/ strcmp(name, letterNames[k]) = 0})

\* the first loop of recordToken, recordTerminal and recordClass begun at n:
\* the place it leaves with, by the loop test, the return or the break
scanLetterNames(letterNames, name, size, n) ==
  leastOf({k \in n..size :
             \/ k = size
             \/ letterNames[k] = ""
             \/ LET result == strcmp(name, letterNames[k])
                IN result = 0 \/ result < 0})

\* the body of recordToken, recordTerminal and recordClass on the array of one
\* bucket: the array it leaves and full at "Too many ...".  before is what
\* letterNames[-1] reads, the place the last round of the shift loop copies
\* from when n is 0.
recordInLetterNames(letterNames, name, size, before) ==
  LET n == scanLetterNames(letterNames, name, size, 0)
  IN IF n < size /\ letterNames[n] # "" /\ strcmp(name, letterNames[n]) = 0
       THEN [letterNames |-> letterNames, full |-> FALSE]
     ELSE IF n = size
       THEN [letterNames |-> letterNames, full |-> TRUE]
     ELSE IF letterNames[n] = ""
       THEN [letterNames |-> [letterNames EXCEPT ![n] = name], full |-> FALSE]
     ELSE LET k == namesBefore(letterNames, size, n)
              shifted == [i \in 0..(size - 1) |->
                            IF i < n \/ i > k THEN letterNames[i]
                            ELSE IF i = 0 THEN before
                            ELSE letterNames[i - 1]]
          IN IF k = size
               THEN [letterNames |-> letterNames, full |-> TRUE]
             ELSE [letterNames |-> [shifted EXCEPT ![n] = name], full |-> FALSE]

RECURSIVE findTokenFrom(_, _, _)
findTokenFrom(letterNames, text, n) ==
  IF n > Len(letterNames) \/ n > LETTERSIZE THEN 0
  ELSE IF same(text, letterNames[n]) THEN n
  ELSE IF strcmp(text, letterNames[n]) < 0 THEN 0
  ELSE findTokenFrom(letterNames, text, n + 1)

\* 0 when text is no token name, else the 1-based place in its letter's bucket
findToken(table, text) ==
  IF CharAt(text, 0) < CharCode("A") \/ CharAt(text, 0) > CharCode("Z") THEN 0
  ELSE findTokenFrom(table[FirstLetter(text)], text, 1)


(***************************************************************************)
(* The EBNF classes.                                                       *)
(***************************************************************************)
expression(theTypeIn, itemNameIn, prodValueIn) ==
  [theType |-> theTypeIn, itemName |-> itemNameIn, prodValue |-> prodValueIn]

\* findIsList were it to ask for NONTERMINAL expressions at both ends of the
\* second definition
findIsList_kinds(h, lhs, defs) ==
  IF Len(defs) # 2 THEN 0
  ELSE IF Len(defs[1]) # 1 THEN 0
  ELSE LET length == Len(defs[2])
       IN IF length # 2 /\ length # 3 THEN 0
          ELSE IF h[defs[2][1]].theType # NONTERMINAL
                  \/ h[defs[2][length]].theType # NONTERMINAL THEN 0
          ELSE IF ~same(lhs, h[defs[2][1]].itemName) THEN 0
          ELSE IF ~same(h[defs[1][1]].itemName, h[defs[2][length]].itemName)
                 THEN 0
          ELSE IF length = 3
                 THEN (IF ~same(h[defs[2][2]].itemName, "c") THEN 0 ELSE 2)
          ELSE 1

\* production::findIsList on the definitions defs of a production named lhs
findIsList(h, lhs, defs) ==
  IF Len(defs) # 2 THEN 0
  ELSE IF Len(defs[1]) # 1 THEN 0
  ELSE LET length == Len(defs[2])
       IN IF length # 2 /\ length # 3 THEN 0
          ELSE IF ~same(lhs, h[defs[2][1]].itemName) THEN 0
          ELSE IF ~same(h[defs[1][1]].itemName, h[defs[2][length]].itemName)
                 THEN 0
          ELSE IF length = 3
                 THEN (IF ~same(h[defs[2][2]].itemName, "c") THEN 0 ELSE 2)
          ELSE 1

\* production::production(lhsIn, defsIn)
production(h, lhsIn, defsIn) ==
  [ancestors |-> <<>>, attNames |-> <<>>, beInstance |-> NULL, defs |-> defsIn,
   isInstance |-> FALSE, isList |-> findIsList(h, lhsIn, defsIn), isOptional |-> 0,
   isSupertype |-> FALSE, lhs |-> lhsIn, myAtts |-> <<>>, myExps |-> <<>>,
   optProd |-> NULL, subtypeOf |-> <<>>, transferName |-> "", wasPrinted |-> FALSE]

\* prodList::member, expList / defList ::findLength
member(list, prod) == \E i \in 1..Len(list) : list[i] = prod

(***************************************************************************)
(* yyparse: the actions of the grammar rules.  A parse state st carries    *)
(* the heap, the two name tables the actions write and the overflow exit.  *)
(***************************************************************************)
\* rule 16 were it to make a new NONTERMINAL expression for c as for any name
expressionAction_fresh(st, tok) ==
  LET new == [st EXCEPT !.heap = Append(@, expression(tok.type, tok.text, NULL)),
                        !.val = Len(st.heap) + 1]
  IN IF tok.type = KEYWORD
       THEN [new EXCEPT
               !.tokenNames = recordToken(@, tok.text),
               !.full = @ \/ recordOverflows(st.tokenNames[FirstLetter(tok.text)],
                                             tok.text, LETTERSIZE)]
     ELSE IF tok.type = TERMINAL
       THEN [new EXCEPT
               !.terminalNames = recordTerminal(@, tok.text),
               !.full = @ \/ recordOverflows(st.terminalNames, tok.text, LETTERSIZE)]
     ELSE new

\* rules 15 - 20: the expression for token tok; val is the pointer to it
expressionAction(st, tok) ==
  IF tok.type = NONTERMINAL /\ same(tok.text, "c")
    THEN [st EXCEPT !.val = commaExp]
  ELSE LET new == [st EXCEPT !.heap = Append(@, expression(tok.type, tok.text, NULL)),
                             !.val = Len(st.heap) + 1]
       IN IF tok.type = KEYWORD
            THEN [new EXCEPT
                    !.tokenNames = recordToken(@, tok.text),
                    !.full = @ \/ recordOverflows(st.tokenNames[FirstLetter(tok.text)],
                                                  tok.text, LETTERSIZE)]
          ELSE IF tok.type = TERMINAL
            THEN [new EXCEPT
                    !.terminalNames = recordTerminal(@, tok.text),
                    !.full = @ \/ recordOverflows(st.terminalNames, tok.text, LETTERSIZE)]
          ELSE new

RECURSIVE expressionListAction(_, _, _, _)
\* rules 12 - 14: the expList of the tokens toks; val is the list built
expressionListAction(st, toks, i, list) ==
  IF i > Len(toks) THEN [st EXCEPT !.val = list]
  ELSE LET s1 == expressionAction(st, toks[i])
       IN expressionListAction(s1, toks, i + 1, Append(list, s1.val))

RECURSIVE definitionListAction(_, _, _, _)
\* rules 9 - 11: the defList of the definitions srcDefs
definitionListAction(st, srcDefs, i, list) ==
  IF i > Len(srcDefs) THEN [st EXCEPT !.val = list]
  ELSE LET s1 == expressionListAction(st, srcDefs[i], 1, <<>>)
       IN definitionListAction(s1, srcDefs, i + 1, Append(list, s1.val))

\* rule 5: new production(leftSide, definitionList)
productionAction(st, src) ==
  LET s1 == definitionListAction(st, src.defs, 1, <<>>)
  IN [s1 EXCEPT !.val = production(s1.heap, src.lhs, s1.val)]

\* rules 3 and 4: keep the production, or record the token C for the production c
productionListAction(st) ==
  IF ~same(st.val.lhs, "c")
    THEN [st EXCEPT !.productions = Append(@, st.val)]
  ELSE [st EXCEPT !.tokenNames = recordToken(@, "C"),
                  !.full = @ \/ recordOverflows(st.tokenNames["C"], "C", LETTERSIZE)]


(***************************************************************************)
(* reviseSpelling                                                          *)
(***************************************************************************)
RECURSIVE spellFrom_whole(_, _, _, _)
\* the loop over the expressions of a token's production were it to copy
\* the whole itemName to buffer
spellFrom_whole(h, exps, i, buffer) ==
  IF i > Len(exps) THEN [bad |-> FALSE, buffer |-> buffer]
  ELSE LET exp == h[exps[i]]
       IN IF exp.theType = ONECHAR \/ exp.theType = TWOCHAR
            THEN spellFrom_whole(h, exps, i + 1, buffer \o exp.itemName)
          ELSE [bad |-> TRUE, buffer |-> buffer]

RECURSIVE spellFrom(_, _, _, _)
\* the loop over the expressions of a token's production: the string built
\* in buffer; bad at "Bad token spelling"
spellFrom(h, exps, i, buffer) ==
  IF i > Len(exps) THEN [bad |-> FALSE, buffer |-> buffer]
  ELSE LET exp == h[exps[i]]
       IN IF exp.theType = ONECHAR
            THEN spellFrom(h, exps, i + 1, buffer \o SubSeq(exp.itemName, 1, 1))
          ELSE IF exp.theType = TWOCHAR
            THEN IF CharAt(exp.itemName, 1) #
                      CharAt(exp.itemName, 0) + (CharCode("a") - CharCode("A"))
                   THEN [bad |-> TRUE, buffer |-> buffer]
                 ELSE spellFrom(h, exps, i + 1, buffer \o SubSeq(exp.itemName, 1, 1))
          ELSE [bad |-> TRUE, buffer |-> buffer]

RECURSIVE reviseSpellingFrom(_, _, _, _, _)
\* the loop over the productions: the tokenLexes; bad at "Bad token spelling"
reviseSpellingFrom(h, prods, names, lexes, i) ==
  IF i > Len(prods) THEN [bad |-> FALSE, tokenLexes |-> lexes]
  ELSE LET leftName == prods[i].lhs
           n == findToken(names, leftName)
       IN IF n = 0 THEN reviseSpellingFrom(h, prods, names, lexes, i + 1)
          ELSE IF Len(prods[i].defs) # 1 THEN [bad |-> TRUE, tokenLexes |-> lexes]
          ELSE LET spelled == spellFrom(h, prods[i].defs[1], 1, "")
               IN IF spelled.bad THEN [bad |-> TRUE, tokenLexes |-> lexes]
                  ELSE reviseSpellingFrom(h, prods, names,
                         [lexes EXCEPT ![FirstLetter(leftName)][n] = spelled.buffer],
                         i + 1)

reviseSpelling(h, prods, names) == reviseSpellingFrom(h, prods, names, names, 1)

(***************************************************************************)
(* findProdValueAll, findProdValueOne, expList::setProdValue               *)
(***************************************************************************)
\* the heap cells on the expression list exps
cellsOf(exps) == {exps[i] : i \in 1..Len(exps)}

\* setProdValue were it to keep a prodValue that is already set
setProdValue_first(h, prods, exps, prod) ==
  [e \in DOMAIN h |->
     IF e \in cellsOf(exps) /\ same(h[e].itemName, prods[prod].lhs)
        /\ h[e].prodValue = NULL
       THEN [h[e] EXCEPT !.prodValue = prod]
     ELSE h[e]]

\* setProdValue were it to set the prodValue of NONTERMINAL and TERMINAL
\* expressions only
setProdValue_kinds(h, prods, exps, prod) ==
  [e \in DOMAIN h |->
     IF e \in cellsOf(exps) /\ same(h[e].itemName, prods[prod].lhs)
        /\ h[e].theType \in {NONTERMINAL, TERMINAL}
       THEN [h[e] EXCEPT !.prodValue = prod]
     ELSE h[e]]

\* the heap after expList::setProdValue(prod) on the expression list exps
setProdValue(h, prods, exps, prod) ==
  [e \in DOMAIN h |->
     IF e \in cellsOf(exps) /\ same(h[e].itemName, prods[prod].lhs)
       THEN [h[e] EXCEPT !.prodValue = prod]
     ELSE h[e]]

RECURSIVE setProdValueDefs(_, _, _, _, _)
\* the loop of findProdValueOne over the definitions of one user
setProdValueDefs(h, prods, defs, prod, d) ==
  IF d > Len(defs) THEN h
  ELSE setProdValueDefs(setProdValue(h, prods, defs[d], prod), prods, defs, prod, d + 1)

RECURSIVE findProdValueOneFrom(_, _, _, _)
\* the loop of findProdValueOne over the users.  The comparison of bound with
\* h has the heap of one round computed before the next round begins; both
\* branches go on with the same heap.
findProdValueOneFrom(h, prods, prod, user) ==
  IF user > Len(prods) THEN h
  ELSE IF user = prod THEN findProdValueOneFrom(h, prods, prod, user + 1)
  ELSE LET bound == setProdValueDefs(h, prods, prods[user].defs, prod, 1)
       IN IF bound = h THEN findProdValueOneFrom(h, prods, prod, user + 1)
          ELSE findProdValueOneFrom(bound, prods, prod, user + 1)

\* findProdValueOne were it to call setProdValue in the definitions of prod too
findProdValueOne_self(h, prods, prod) ==
  [e \in DOMAIN h |->
     IF /\ same(h[e].itemName, prods[prod].lhs)
        /\ \E user \in 1..Len(prods) : \E d \in 1..Len(prods[user].defs) :
             e \in cellsOf(prods[user].defs[d])
       THEN [h[e] EXCEPT !.prodValue = prod]
     ELSE h[e]]

findProdValueOne(h, prods, prod) == findProdValueOneFrom(h, prods, prod, 1)

RECURSIVE findProdValueAllFrom(_, _, _)
\* the loop of findProdValueAll over the productions, each round's heap
\* computed before the next as in findProdValueOneFrom
findProdValueAllFrom(h, prods, prod) ==
  IF prod > Len(prods) THEN h
  ELSE LET bound == findProdValueOne(h, prods, prod)
       IN IF bound = h THEN findProdValueAllFrom(h, prods, prod + 1)
          ELSE findProdValueAllFrom(bound, prods, prod + 1)

findProdValueAll(h, prods) == findProdValueAllFrom(h, prods, 1)

(***************************************************************************)
(* findSupertypes                                                          *)
(***************************************************************************)
\* the first loop of findSupertypes were it not to break at a list
supertypeShape_lists(h, prods, prod) ==
  \A d \in 1..Len(prods[prod].defs) :
    LET exps == prods[prod].defs[d]
    IN /\ Len(exps) = 1
       /\ h[exps[1]].theType = NONTERMINAL
       /\ h[exps[1]].prodValue # NULL

\* the first loop over the definitions of prod runs to its end
supertypeShape(h, prods, prod) ==
  \A d \in 1..Len(prods[prod].defs) :
    LET exps == prods[prod].defs[d]
    IN /\ Len(exps) = 1
       /\ h[exps[1]].theType = NONTERMINAL
       /\ h[exps[1]].prodValue # NULL
       /\ prods[h[exps[1]].prodValue].isList = 0

RECURSIVE markSubs_plain(_, _, _, _)
\* the second loop of findSupertypes were instance a supertype like the others
markSubs_plain(h, prods, prod, d) ==
  IF d > Len(prods[prod].defs) THEN prods
  ELSE LET sub == h[prods[prod].defs[d][1]].prodValue
       IN markSubs_plain(h, [prods EXCEPT ![sub].subtypeOf = Append(@, prod)], prod, d + 1)

RECURSIVE markSubs(_, _, _, _)
\* the second loop over the definitions of supertype prod
markSubs(h, prods, prod, d) ==
  IF d > Len(prods[prod].defs) THEN prods
  ELSE LET sub == h[prods[prod].defs[d][1]].prodValue
       IN IF same(prods[prod].lhs, "instance")
            THEN markSubs(h, [prods EXCEPT ![sub].isInstance = TRUE], prod, d + 1)
          ELSE markSubs(h, [prods EXCEPT ![sub].subtypeOf = Append(@, prod)], prod, d + 1)

RECURSIVE findSupertypesFrom(_, _, _)
findSupertypesFrom(h, prods, prod) ==
  IF prod > Len(prods) THEN prods
  ELSE IF ~supertypeShape(h, prods, prod) THEN findSupertypesFrom(h, prods, prod + 1)
  ELSE findSupertypesFrom(h, markSubs(h, [prods EXCEPT ![prod].isSupertype = TRUE], prod, 1),
                          prod + 1)

findSupertypes(h, prods) == findSupertypesFrom(h, prods, 1)

(***************************************************************************)
(* findAllAncestors, findAncestors, findBeInstance                         *)
(***************************************************************************)
RECURSIVE findAncestorsFrom_direct(_, _, _, _)
\* findAncestors were it not to call itself on the supertype it has put on ancesti
findAncestorsFrom_direct(prods, prod, ancesti, i) ==
  IF i > Len(prods[prod].subtypeOf) THEN ancesti
  ELSE LET super == prods[prod].subtypeOf[i]
       IN IF super # NULL /\ ~member(ancesti, super)
             /\ prods[super].isOptional # 1 /\ prods[super].isOptional # 2
            THEN findAncestorsFrom_direct(prods, prod, Append(ancesti, super), i + 1)
          ELSE findAncestorsFrom_direct(prods, prod, ancesti, i + 1)

RECURSIVE findAncestorsFrom(_, _, _, _)
\* the ancesti list after the loop of findAncestors(prod, ancesti) from cell i on
findAncestorsFrom(prods, prod, ancesti, i) ==
  IF i > Len(prods[prod].subtypeOf) THEN ancesti
  ELSE LET super == prods[prod].subtypeOf[i]
       IN IF super # NULL /\ ~member(ancesti, super)
             /\ prods[super].isOptional # 1 /\ prods[super].isOptional # 2
            THEN findAncestorsFrom(prods, prod,
                   findAncestorsFrom(prods, super, Append(ancesti, super), 1), i + 1)
          ELSE findAncestorsFrom(prods, prod, ancesti, i + 1)

findAncestors(prods, prod, ancesti) == findAncestorsFrom(prods, prod, ancesti, 1)

findAllAncestors(prods) ==
  [p \in 1..Len(prods) |->
     [prods[p] EXCEPT !.ancestors = findAncestors(prods, p, prods[p].ancestors)]]

RECURSIVE markBeInstance(_, _, _)
\* the loop over the ancestors of instance sub
markBeInstance(prods, sub, i) ==
  IF i > Len(prods[sub].ancestors) THEN prods
  ELSE LET super == prods[sub].ancestors[i]
       IN IF prods[super].beInstance = NULL
            THEN markBeInstance([prods EXCEPT ![super].beInstance = sub], sub, i + 1)
          ELSE markBeInstance(prods, sub, i + 1)

RECURSIVE findBeInstanceFrom_all(_, _)
\* findBeInstance were it not to test isInstance
findBeInstanceFrom_all(prods, sub) ==
  IF sub > Len(prods) THEN prods
  ELSE findBeInstanceFrom_all(markBeInstance(prods, sub, 1), sub + 1)

RECURSIVE findBeInstanceFrom(_, _)
findBeInstanceFrom(prods, sub) ==
  IF sub > Len(prods) THEN prods
  ELSE IF prods[sub].isInstance
    THEN findBeInstanceFrom(markBeInstance(prods, sub, 1), sub + 1)
  ELSE findBeInstanceFrom(prods, sub + 1)

findBeInstance(prods) == findBeInstanceFrom(prods, 1)


(***************************************************************************)
(* findProd, findMyAtts                                                    *)
(***************************************************************************)
RECURSIVE findProdFrom(_, _, _)
findProdFrom(prods, itemName, i) ==
  IF i > Len(prods) THEN NULL
  ELSE IF same(itemName, prods[i].lhs) THEN i
  ELSE findProdFrom(prods, itemName, i + 1)

findProd(prods, itemName) == findProdFrom(prods, itemName, 1)

RECURSIVE findMyAttsFrom(_, _, _)
\* the second loop of findMyAtts over the lines after "Start attributes"
findMyAttsFrom(prods, atts, i) ==
  IF i > Len(atts.lines)
    THEN [productions |-> prods,
          err |-> IF atts.end THEN "" ELSE "Did not find End attributes"]
  ELSE LET line == atts.lines[i]
           prod == findProd(prods, line.name)
       IN IF prod = NULL
            THEN [productions |-> prods, err |-> "Did not find production"]
          ELSE findMyAttsFrom(
                 [prods EXCEPT ![prod].myAtts = @ \o line.myAtts,
                               ![prod].attNames =
                                  IF line.second THEN @ \o line.attNames ELSE @],
                 atts, i + 1)

findMyAtts(prods, atts) ==
  IF ~atts.start
    THEN [productions |-> prods, err |-> "Did not find Start attributes"]
  ELSE findMyAttsFrom(prods, atts, 1)

(***************************************************************************)
(* findOptProds, findTransferName                                          *)
(***************************************************************************)
RECURSIVE findTransferNameFrom(_, _, _)
\* the production whose name becomes the transferName, NULL when the loop ends
findTransferNameFrom(prods, child, i) ==
  IF i > Len(prods) THEN NULL
  ELSE IF member(prods[i].ancestors, child) /\ prods[i].isInstance THEN i
  ELSE findTransferNameFrom(prods, child, i + 1)

\* findTransferName were it to take the child itself
findTransferName_child(prods, child) == child

findTransferName(prods, child) == findTransferNameFrom(prods, child, 1)

\* the test of findOptProds were it to ask for a NONTERMINAL first expression
optionalShape_nonterminal(h, prods, parent) ==
  LET defs == prods[parent].defs
  IN /\ Len(defs) = 2
     /\ Len(defs[1]) = 1
     /\ Len(defs[2]) = 1
     /\ h[defs[1][1]].theType = NONTERMINAL
     /\ h[defs[1][1]].prodValue # NULL
     /\ h[defs[2][1]].theType = ONECHAR
     /\ same(h[defs[2][1]].itemName, "$")

\* the test of findOptProds were it to pass over a child that is a list
optionalShape_nolists(h, prods, parent) ==
  LET defs == prods[parent].defs
  IN /\ Len(defs) = 2
     /\ Len(defs[1]) = 1
     /\ Len(defs[2]) = 1
     /\ h[defs[1][1]].prodValue # NULL
     /\ prods[h[defs[1][1]].prodValue].isList = 0
     /\ h[defs[2][1]].theType = ONECHAR
     /\ same(h[defs[2][1]].itemName, "$")

\* the test of findOptProds on production parent
optionalShape(h, prods, parent) ==
  LET defs == prods[parent].defs
  IN /\ Len(defs) = 2
     /\ Len(defs[1]) = 1
     /\ Len(defs[2]) = 1
     /\ h[defs[1][1]].prodValue # NULL
     /\ h[defs[2][1]].theType = ONECHAR
     /\ same(h[defs[2][1]].itemName, "$")

RECURSIVE findOptProdsFrom(_, _, _)
findOptProdsFrom(h, prods, parent) ==
  IF parent > Len(prods) THEN [productions |-> prods, err |-> ""]
  ELSE IF ~optionalShape(h, prods, parent) THEN findOptProdsFrom(h, prods, parent + 1)
  ELSE LET child == h[prods[parent].defs[1][1]].prodValue
           p1 == [prods EXCEPT ![child].isOptional = 3, ![child].optProd = parent]
           p2 == [p1 EXCEPT ![parent].optProd = child]
       IN IF p2[child].isInstance
            THEN findOptProdsFrom(h,
                   [p2 EXCEPT ![parent].isOptional = 1,
                              ![parent].transferName = p2[child].lhs], parent + 1)
          ELSE IF p2[child].beInstance # NULL
            THEN LET found == findTransferName(p2, child)
                     p3 == [p2 EXCEPT ![parent].isOptional = 1]
                 IN IF found = NULL
                      THEN [productions |-> p3, err |-> "did not find transferName"]
                    ELSE findOptProdsFrom(h,
                           [p3 EXCEPT ![parent].transferName = p3[found].lhs], parent + 1)
          ELSE findOptProdsFrom(h,
                 [p2 EXCEPT ![parent].isOptional = 2,
                            ![parent].transferName = p2[child].lhs], parent + 1)

findOptProds(h, prods) == findOptProdsFrom(h, prods, 1)


(***************************************************************************)
(* findAttNamesAll, findAttNamesOne                                        *)
(*                                                                         *)
(* findAttNamesOne recurses into every subtype that is a supertype,        *)
(* whatever it wrote: on a cycle of supertypes the recursion never         *)
(* returns and the stack runs out.  A recursion deeper than the number of  *)
(* productions has entered such a cycle; the result is then marked         *)
(* overflow.                                                               *)
(***************************************************************************)
RECURSIVE findAttNamesOneFrom(_, _, _, _, _)
\* the loop of findAttNamesOne(super, &super->attNames) from definition d on;
\* res carries the productions and the overflow mark
findAttNamesOneFrom(h, res, super, d, depth) ==
  IF res.overflow \/ d > Len(res.productions[super].defs) THEN res
  ELSE IF depth > Len(res.productions) THEN [res EXCEPT !.overflow = TRUE]
  ELSE LET prods == res.productions
           sub == h[prods[super].defs[d][1]].prodValue
           written ==
             IF prods[sub].attNames = <<>>
               THEN [prods EXCEPT ![sub].attNames =
                                     prods[super].attNames \o prods[sub].myAtts]
             ELSE prods
           below ==
             IF written[sub].isSupertype
               THEN findAttNamesOneFrom(h, [res EXCEPT !.productions = written],
                                        sub, 1, depth + 1)
             ELSE [res EXCEPT !.productions = written]
       IN findAttNamesOneFrom(h, below, super, d + 1, depth)

findAttNamesOne(h, res, super) == findAttNamesOneFrom(h, res, super, 1, 1)

RECURSIVE findAttNamesAllFrom(_, _, _)
findAttNamesAllFrom(h, res, p) ==
  IF res.overflow \/ p > Len(res.productions) THEN res
  ELSE LET prods == res.productions
       IN IF same(prods[p].lhs, "instance")
            THEN findAttNamesAllFrom(h, res, p + 1)
          ELSE IF prods[p].subtypeOf = <<>>
            THEN LET own == [prods EXCEPT ![p].attNames = @ \o prods[p].myAtts]
                     r1 == [res EXCEPT !.productions = own]
                 IN findAttNamesAllFrom(h,
                      IF own[p].isSupertype THEN findAttNamesOne(h, r1, p) ELSE r1,
                      p + 1)
          ELSE findAttNamesAllFrom(h, res, p + 1)

findAttNamesAll(h, prods) ==
  findAttNamesAllFrom(h, [productions |-> prods, overflow |-> FALSE], 1)

(***************************************************************************)
(* findMyExps                                                              *)
(***************************************************************************)
RECURSIVE nextAttExp(_, _, _)
\* the cell the loops "go to expression matching next attribute" stop at,
\* from cell i on; Len(exps) + 1 stands for the null cell
nextAttExp(h, exps, i) ==
  IF i > Len(exps) THEN Len(exps) + 1
  ELSE IF h[exps[i]].theType = TERMINAL \/ h[exps[i]].theType = NONTERMINAL THEN i
  ELSE nextAttExp(h, exps, i + 1)

RECURSIVE findMyName_still(_, _, _, _, _, _)
\* the loop that looks for the first of myAtts were it to leave expCell where
\* it was
findMyName_still(h, exps, attNames, myName, att, exp) ==
  IF att > Len(attNames) THEN [att |-> att, exp |-> exp, crash |-> FALSE]
  ELSE IF same(attNames[att], myName)
    THEN [att |-> att, exp |-> exp, crash |-> FALSE]
  ELSE findMyName_still(h, exps, attNames, myName, att + 1, exp)

RECURSIVE findMyName(_, _, _, _, _, _)
\* the loop that looks for the first of myAtts in the attNames of source:
\* the cursors att and exp it ends with; crash when it steps from the null cell
findMyName(h, exps, attNames, myName, att, exp) ==
  IF att > Len(attNames) THEN [att |-> att, exp |-> exp, crash |-> FALSE]
  ELSE IF same(attNames[att], myName)
    THEN [att |-> att, exp |-> exp, crash |-> FALSE]
  ELSE IF exp > Len(exps) THEN [att |-> att, exp |-> exp, crash |-> TRUE]
  ELSE findMyName(h, exps, attNames, myName, att + 1, nextAttExp(h, exps, exp + 1))

RECURSIVE matchMyAtts_short(_, _, _, _, _, _, _, _)
\* the last loop of findMyExps were it to stop at the end of the expressions
\* without a message
matchMyAtts_short(h, exps, attNames, myAtts, my, att, exp, myExps) ==
  IF my > Len(myAtts) \/ exp > Len(exps) THEN [myExps |-> myExps, err |-> ""]
  ELSE IF att > Len(attNames)
    THEN [myExps |-> myExps, err |-> "Not enough attNames to match myAtts"]
  ELSE IF ~same(attNames[att], myAtts[my])
    THEN [myExps |-> myExps, err |-> "Matching attribute names differ"]
  ELSE matchMyAtts_short(h, exps, attNames, myAtts, my + 1, att + 1,
                         nextAttExp(h, exps, exp + 1), Append(myExps, exps[exp]))

RECURSIVE matchMyAtts(_, _, _, _, _, _, _, _)
\* the last loop of findMyExps for production prod: myExps built, or the exit
matchMyAtts(h, exps, attNames, myAtts, my, att, exp, myExps) ==
  IF my > Len(myAtts) THEN [myExps |-> myExps, err |-> ""]
  ELSE IF exp > Len(exps)
    THEN [myExps |-> myExps, err |-> "Not enough expressions to match attributes"]
  ELSE IF att > Len(attNames)
    THEN [myExps |-> myExps, err |-> "Not enough attNames to match myAtts"]
  ELSE IF ~same(attNames[att], myAtts[my])
    THEN [myExps |-> myExps, err |-> "Matching attribute names differ"]
  ELSE matchMyAtts(h, exps, attNames, myAtts, my + 1, att + 1,
                   nextAttExp(h, exps, exp + 1), Append(myExps, exps[exp]))

\* the body of the loop of findMyExps for production prod
findMyExpsOne(h, prods, prod) ==
  LET source == IF prods[prod].isInstance THEN prod
                ELSE IF prods[prod].beInstance # NULL THEN prods[prod].beInstance
                ELSE prod
      exps == prods[source].defs[1]
      first == nextAttExp(h, exps, 1)
      found == findMyName(h, exps, prods[source].attNames, prods[prod].myAtts[1],
                          1, first)
  IN IF first > Len(exps)
       THEN [myExps |-> prods[prod].myExps,
             err |-> "Not enough expressions to match attributes"]
     ELSE IF found.crash
       THEN [myExps |-> prods[prod].myExps, err |-> "Segmentation fault"]
     ELSE matchMyAtts(h, exps, prods[source].attNames, prods[prod].myAtts, 1,
                      found.att, found.exp, prods[prod].myExps)

RECURSIVE findMyExpsFrom(_, _, _)
findMyExpsFrom(h, prods, prod) ==
  IF prod > Len(prods) THEN [productions |-> prods, err |-> ""]
  ELSE IF prods[prod].myAtts = <<>> THEN findMyExpsFrom(h, prods, prod + 1)
  ELSE LET one == findMyExpsOne(h, prods, prod)
           written == [prods EXCEPT ![prod].myExps = one.myExps]
       IN IF one.err # "" THEN [productions |-> written, err |-> one.err]
          ELSE findMyExpsFrom(h, written, prod + 1)

findMyExps(h, prods) == findMyExpsFrom(h, prods, 1)


(***************************************************************************)
(* selectProductions, recordClasses, printCppClasses                       *)
(*                                                                         *)
(* The text of the files is not modelled.  The functions that write the    *)
(* members of a class (printCppClassDoc, printCppClassConstructor,         *)
(* printCppClassPrinter, printCppClassDestructor, printCppClassMethods,    *)
(* printCppClassData) leave with a message of their own on expressions     *)
(* and attribute names they cannot handle; deep says whether they do for   *)
(* the production at hand, and both outcomes are followed.                 *)
(***************************************************************************)
\* the test of selectProductions were it to let lists through
selected_lists(names, table, prods, p) ==
  /\ ~\E n \in 1..Len(names) : same(prods[p].lhs, names[n])
  /\ findToken(table, prods[p].lhs) = 0
  /\ ~same(prods[p].lhs, "instancePlus")
  /\ prods[p].isOptional # 1
  /\ prods[p].isOptional # 2

\* the test of selectProductions on production p
selected(names, table, prods, p) ==
  /\ ~\E n \in 1..Len(names) : same(prods[p].lhs, names[n])
  /\ findToken(table, prods[p].lhs) = 0
  /\ prods[p].isList = 0
  /\ ~same(prods[p].lhs, "instancePlus")
  /\ prods[p].isOptional # 1
  /\ prods[p].isOptional # 2

selectProductions(names, table, prods) ==
  SelectSeq([p \in 1..Len(prods) |-> p], LAMBDA p : selected(names, table, prods, p))

RECURSIVE recordClassesFrom(_, _, _, _)
\* the loop of recordClasses: the classNames, full at "Too many classes" and
\* outside when className[0] - 'a' is no index of classNames
recordClassesFrom(res, prods, toPrint, i) ==
  IF i > Len(toPrint) \/ res.full THEN res
  ELSE LET className == prods[toPrint[i]].lhs
       IN IF FirstLetter(className) \notin LowerLetters
            THEN recordClassesFrom([res EXCEPT !.outside = TRUE], prods, toPrint, i + 1)
          ELSE recordClassesFrom(
                 [res EXCEPT
                    !.classNames = recordClass(@, className),
                    !.full = recordOverflows(res.classNames[FirstLetter(className)],
                                             className, CLASSSIZE)],
                 prods, toPrint, i + 1)

recordClasses(table, prods, toPrint) ==
  recordClassesFrom([classNames |-> table, full |-> FALSE, outside |-> FALSE],
                    prods, toPrint, 1)

\* the message the functions that write the members of a class leave with
ClassMemberFatal == "fatal message of a function that prints class members"

\* printCppClassParent: the message it exits with, "" when it returns
printCppClassParent(prods, prod, deep) ==
  IF same(prods[prod].lhs, "instance") THEN ""
  ELSE IF prods[prod].attNames # <<>> /\ prods[prod].beInstance = NULL
    THEN "Cannot handle since not a subtype of instance"
  ELSE IF deep /\ (prods[prod].attNames # <<>> \/ prods[prod].myExps # <<>>)
    THEN ClassMemberFatal
  ELSE ""

\* printCppClassTop
printCppClassTop(prods, prod, deep) == IF deep THEN ClassMemberFatal ELSE ""

\* printCppClassList
printCppClassList(h, prods, prod, deep) ==
  LET first == prods[prod].defs[1]
      last == prods[prod].defs[Len(prods[prod].defs)]
  IN IF \/ Len(first) # 3
        \/ ~same(h[first[1]].itemName, "(")
        \/ ~same(h[first[Len(first)]].itemName, ")")
       THEN "with two definitions is not a paren list"
     ELSE IF \/ Len(last) # 2
             \/ ~same(h[last[1]].itemName, "(")
             \/ ~same(h[last[Len(last)]].itemName, ")")
       THEN "with two definitions is not a paren list"
     ELSE IF deep THEN ClassMemberFatal
     ELSE IF prods[prod].isInstance THEN "list must not be an instance"
     ELSE IF prods[prod].subtypeOf # <<>> THEN "list must not have a supertype"
     ELSE ""

\* printCppProductionClass: the message it exits with, "" when it returns
printCppProductionClass(h, prods, prod, deep) ==
  IF Len(prods[prod].defs) = 0 THEN "Bug in printCppProductionClass"
  ELSE IF prods[prod].isSupertype THEN printCppClassParent(prods, prod, deep)
  ELSE IF Len(prods[prod].defs) = 1 THEN printCppClassTop(prods, prod, deep)
  ELSE IF Len(prods[prod].defs) = 2 THEN printCppClassList(h, prods, prod, deep)
  ELSE "has more than two definitions and is not a supertype"

\* the test of printCppClasses were it to print a production whatever
\* has been printed
mayPrint_always(prods, instanceProd, prod) == TRUE

\* the test of printCppClasses on a production that was not printed: instance
\* was printed if prod is an instance, and so was every supertype of prod
mayPrint(prods, instanceProd, prod) ==
  /\ prods[prod].isInstance => prods[instanceProd].wasPrinted
  /\ \A s \in 1..Len(prods[prod].subtypeOf) : prods[prods[prod].subtypeOf[s]].wasPrinted

RECURSIVE printCppClassesPass(_, _, _, _, _, _)
\* one pass of printCppClasses over toPrint from place i on; st carries the
\* productions, the productions printed in this pass and the exit message
printCppClassesPass(h, st, toPrint, instanceProd, stopAt, i) ==
  IF i > Len(toPrint) \/ st.err # "" THEN st
  ELSE LET prod == toPrint[i]
           prods == st.productions
       IN IF prods[prod].wasPrinted \/ ~mayPrint(prods, instanceProd, prod)
            THEN printCppClassesPass(h, st, toPrint, instanceProd, stopAt, i + 1)
          ELSE LET message == printCppProductionClass(h, prods, prod, stopAt = prod)
               IN IF message # "" THEN [st EXCEPT !.err = message]
                  ELSE printCppClassesPass(h,
                         [st EXCEPT !.productions[prod].wasPrinted = TRUE,
                                    !.printed = Append(@, prod)],
                         toPrint, instanceProd, stopAt, i + 1)

RECURSIVE printCppClassesFrom_once(_, _, _, _, _, _)
\* the passes of printCppClasses were it to make one pass only
printCppClassesFrom_once(h, res, toPrint, instanceProd, stopAt, n) ==
  IF n >= 1 THEN res
  ELSE LET pass == printCppClassesPass(h,
                     [productions |-> res.productions, printed |-> <<>>, err |-> ""],
                     toPrint, instanceProd, stopAt, 1)
           after == [productions |-> pass.productions,
                     passes |-> Append(res.passes, pass.printed),
                     err |-> pass.err]
       IN IF pass.err # "" THEN after
          ELSE IF pass.printed = <<>> THEN [after EXCEPT !.passes = res.passes]
          ELSE printCppClassesFrom_once(h, after, toPrint, instanceProd, stopAt, n + 1)

RECURSIVE printCppClassesFrom(_, _, _, _, _, _)
\* the passes of printCppClasses from pass n on (n counts from 0); res carries
\* the productions, the productions printed pass by pass and the exit message
printCppClassesFrom(h, res, toPrint, instanceProd, stopAt, n) ==
  IF n >= Len(toPrint) THEN res
  ELSE LET pass == printCppClassesPass(h,
                     [productions |-> res.productions, printed |-> <<>>, err |-> ""],
                     toPrint, instanceProd, stopAt, 1)
           after == [productions |-> pass.productions,
                     passes |-> Append(res.passes, pass.printed),
                     err |-> pass.err]
       IN IF pass.err # "" THEN after
          ELSE IF pass.printed = <<>> THEN [after EXCEPT !.passes = res.passes]
          ELSE printCppClassesFrom(h, after, toPrint, instanceProd, stopAt, n + 1)

\* the number of productions printed in all
totalPrinted(perPass) ==
  Cardinality(UNION {{<<n, i>> : i \in 1..Len(perPass[n])} : n \in 1..Len(perPass)})

\* the loop of printCppClasses and the test after it
printCppClasses(h, prods, toPrint, stopAt) ==
  LET res == printCppClassesFrom(h,
               [productions |-> prods, passes |-> <<>>, err |-> ""],
               toPrint, findProd(prods, "instance"), stopAt, 0)
  IN IF res.err = "" /\ totalPrinted(res.passes) # Len(toPrint)
       THEN [res EXCEPT !.err = "loop found in productions"]
     ELSE res

(***************************************************************************)
(* The YACC and Lex files.                                                 *)
(***************************************************************************)
\* the message the functions that print the rules and actions leave with
YaccRuleFatal == "fatal message of a function that prints YACC rules"

\* printYacc, with the file taken to open: printYaccStart, whose
\* printYaccGlobals prints productions.first->data->lhs, printYaccMiddle, whose
\* printYaccUnionAndTypes asks for inputFile, and printYaccProductions with
\* printYaccFirstProduction.  deep is the message of the functions below them,
\* "" when they return.  The result is the fatal message, "" without one.
printYacc(prods, deep) ==
  IF Len(prods) = 0 THEN "Segmentation fault"
  ELSE IF ~same(prods[1].lhs, "inputFile")
    THEN "first production must be inputFile but is not"
  ELSE IF prods[1].isList # 0 \/ prods[1].isSupertype
    THEN "First production must not be a list or a supertype"
  ELSE IF Len(prods[1].defs) # 1
    THEN "First production must have exactly one definition"
  ELSE deep

(***************************************************************************)
(* The grammar files.  A token is what yylex returns: the token type and   *)
(* the text yylval.sval; a production of the file is its left side and,    *)
(* per definition, its tokens.  The attribute block is the lines between   *)
(* "Start attributes" and "End attributes", each with the production name, *)
(* the names before a second colon and the names after one.                *)
(***************************************************************************)
kw(text) == [type |-> KEYWORD, text |-> text]
nt(text) == [type |-> NONTERMINAL, text |-> text]
oc(text) == [type |-> ONECHAR, text |-> text]
tc(text) == [type |-> TWOCHAR, text |-> text]
tm(text) == [type |-> TERMINAL, text |-> text]
ts(text) == [type |-> TERMINALSTRING, text |-> text]

rule(lhs, defs) == [lhs |-> lhs, defs |-> defs]

\* c = ',' ;
CommaRule == rule("c", << <<oc(",")>> >>)

NoAtts == [start |-> TRUE, end |-> TRUE, lines |-> <<>>]

SeqsUpTo(S, n) == UNION {[1..k -> S] : k \in 0..n}

\* A grammar file is required to hold the production c = ',' (note 4a of the
\* source); the files have it in front of the other productions or behind them.
Files(rules, blocks) ==
  { [prods |-> s, atts |-> a] :
      s \in UNION { {<<CommaRule>> \o t, t \o <<CommaRule>>} : t \in SeqsUpTo(rules, MaxProds) },
      a \in blocks }

\* the productions of the files of Spec: lists, a keyword with its spelling,
\* a terminal with its production, an undefined name, a name defined twice
SyntaxRules ==
  { rule("xs", << <<nt("x")>>, <<nt("xs"), nt("x")>> >>),
    rule("xs", << <<nt("x")>>, <<nt("xs"), nt("c"), nt("x")>> >>),
    rule("x", << <<kw("KW"), oc("("), tm("REALSTRING"), nt("c"), nt("xs"), oc(")")>> >>),
    rule("x", << <<nt("x"), nt("c"), nt("z")>> >>),
    rule("KW", << <<oc("x"), tc("Ww")>> >>),
    rule("REALSTRING", << <<ts("real")>> >>) }

\* (* x : val lst *)
XAtts == [start |-> TRUE, end |-> TRUE,
          lines |-> << [name |-> "x", myAtts |-> <<"val", "lst">>,
                        second |-> FALSE, attNames |-> <<>>] >>]

SyntaxFiles == Files(SyntaxRules, {NoAtts, XAtts})

\* the productions of the files of SpecLattice: supertypes over the names
\* instance, a, b and d, a cycle, a list, an optional parent
LatticeRules ==
  { rule("instance", << <<nt("b")>>, <<nt("d")>> >>),
    rule("a", << <<nt("b")>>, <<nt("d")>> >>),
    rule("b", << <<nt("d")>> >>),
    rule("d", << <<nt("a")>> >>),
    rule("a", << <<kw("KW")>> >>),
    rule("b", << <<nt("d")>>, <<nt("b"), nt("d")>> >>),
    rule("optD", << <<nt("d")>>, <<oc("$")>> >>) }

LatticeFiles ==
  { [prods |-> <<CommaRule>> \o t, atts |-> NoAtts] : t \in SeqsUpTo(LatticeRules, MaxSupers) }

\* the files of SpecList: one production named xs or KW whose definitions are
\* any expression lists over the tokens xs, x, c and KW
ListTokens == {nt("xs"), nt("x"), nt("c"), kw("KW")}

ExpLists(n) == UNION {[1..k -> ListTokens] : k \in 1..n}

ListDefs ==
  LET D1 == ExpLists(2)
      D2 == ExpLists(MaxExps)
  IN {<<d2>> : d2 \in D2}
       \cup {<<d1, d2>> : d1 \in D1, d2 \in D2}
       \cup {<<d1, d2, <<nt("x")>> >> : d1 \in D1, d2 \in D2}

ListFiles ==
  { [prods |-> <<CommaRule, rule(lhs, defs)>>, atts |-> NoAtts] :
      lhs \in {"xs", "KW"}, defs \in ListDefs }

\* the productions every file of SpecOptional has after c, with or without
\* the production instance in front: a supertype b of d, a keyword with its
\* spelling, a list
OptionalBase ==
  << rule("b", << <<nt("d")>> >>),
     rule("d", << <<kw("KW")>> >>),
     rule("KW", << <<oc("K"), tc("Ww")>> >>),
     rule("xs", << <<nt("d")>>, <<nt("xs"), nt("d")>> >>) >>

\* the productions the files of SpecOptional end with: optionals of d, of b,
\* of an optional, of a list and of a keyword, and one with '$' in front
OptionalRules ==
  { rule("optD", << <<nt("d")>>, <<oc("$")>> >>),
    rule("optE", << <<nt("d")>>, <<oc("$")>> >>),
    rule("optB", << <<nt("b")>>, <<oc("$")>> >>),
    rule("optR", << <<oc("$")>>, <<nt("d")>> >>),
    rule("optOptD", << <<nt("optD")>>, <<oc("$")>> >>),
    rule("optXs", << <<nt("xs")>>, <<oc("$")>> >>),
    rule("optK", << <<kw("KW")>>, <<oc("$")>> >>) }

OptionalFiles ==
  { [prods |-> <<CommaRule>> \o front \o OptionalBase \o t, atts |-> NoAtts] :
      front \in {<<>>, <<rule("instance", << <<nt("d")>> >>)>>},
      t \in SeqsUpTo(OptionalRules, MaxOpts) }

\* a line of the attribute block: (* name : myAtts *) or, with a second
\* colon, (* name : myAtts : attNames *)
line(name, myAtts) ==
  [name |-> name, myAtts |-> myAtts, second |-> FALSE, attNames |-> <<>>]

lineWithAll(name, myAtts, attNames) ==
  [name |-> name, myAtts |-> myAtts, second |-> TRUE, attNames |-> attNames]

\* the productions of the files of SpecAtts: a supertype s of p, with or
\* without instance in front of it and a second supertype t of p behind it;
\* p has three expressions that can match attributes and n has one
AttRules(front, back) ==
  <<CommaRule>> \o front
    \o << rule("s", << <<nt("p")>> >>),
          rule("p", << <<oc("("), tm("REALSTRING"), nt("c"), nt("n"), nt("c"),
                         nt("n"), oc(")")>> >>),
          rule("n", << <<oc("("), tm("REALSTRING"), oc(")")>> >>) >>
    \o back

\* the lines of the attribute blocks of SpecAtts
AttLines ==
  { line("s", <<"u">>),
    line("t", <<"x">>),
    line("p", <<"v", "w">>),
    line("p", <<"v", "w", "x", "y">>),
    line("n", <<"k">>),
    line("z", <<"k">>),
    lineWithAll("p", <<"v", "w">>, <<"u", "v", "w">>),
    lineWithAll("p", <<"w">>, <<"v", "u">>),
    lineWithAll("s", <<"u">>, <<"u">>),
    lineWithAll("n", <<>>, <<"k">>) }

AttBlocks ==
  { [start |-> TRUE, end |-> e, lines |-> ls] :
      e \in BOOLEAN, ls \in SeqsUpTo(AttLines, MaxLines) }

AttFiles ==
  { [prods |-> AttRules(front, back), atts |-> a] :
      front \in {<<>>, <<rule("instance", << <<nt("p")>> >>)>>},
      back \in {<<>>, <<rule("t", << <<nt("p")>> >>)>>},
      a \in AttBlocks }

\* the productions of the files of SpecEmit: a production with a terminal, a
\* supertype named as that terminal, a supertype a of x, a cycle of a and b,
\* instance over a and under a, a supertype named instancePlus
EmitRules ==
  { rule("x", << <<oc("("), tm("REALSTRING"), oc(")")>> >>),
    rule("REALSTRING", << <<nt("x")>> >>),
    rule("a", << <<nt("x")>> >>),
    rule("a", << <<nt("b")>> >>),
    rule("b", << <<nt("a")>> >>),
    rule("instance", << <<nt("a")>> >>),
    rule("a", << <<nt("instance")>> >>),
    rule("instancePlus", << <<nt("x")>> >>) }

EmitFiles ==
  { [prods |-> <<CommaRule>> \o t, atts |-> NoAtts] : t \in SeqsUpTo(EmitRules, MaxEmit) }

(***************************************************************************)
(* main                                                                    *)
(***************************************************************************)
EmptyTable == [l \in Letters |-> <<>>]

InitOn(files) ==
  /\ file \in files
  /\ pc = "yyparse"
  /\ yyin = 1
  /\ heap = <<expression(0, "c", NULL)>>
  /\ productions = <<>>
  /\ tokenNames = EmptyTable
  /\ tokenLexes = EmptyTable
  /\ terminalNames = <<>>
  /\ classNames = [l \in LowerLetters |-> <<>>]
  /\ err = ""
  /\ ran = <<>>
  /\ passes = <<>>

Init == InitOn(SyntaxFiles)

InitLattice == InitOn(LatticeFiles)

InitList == InitOn(ListFiles)

InitOptional == InitOn(OptionalFiles)

InitAtts == InitOn(AttFiles)

InitEmit == InitOn(EmitFiles)

exit(message) == pc' = "exit" /\ err' = message

\* yyparse reads one production: rules 5 to 20, then rule 3 or 4
ParseProduction ==
  /\ pc = "yyparse"
  /\ ran' = IF ran = <<>> THEN <<"yyparse">> ELSE ran
  /\ yyin <= Len(file.prods)
  /\ LET st == productionListAction(productionAction(
                 [heap |-> heap, tokenNames |-> tokenNames,
                  terminalNames |-> terminalNames, productions |-> productions,
                  full |-> FALSE, val |-> NULL],
                 file.prods[yyin]))
     IN /\ heap' = st.heap
        /\ tokenNames' = st.tokenNames
        /\ terminalNames' = st.terminalNames
        /\ productions' = st.productions
        /\ yyin' = yyin + 1
        /\ IF st.full THEN exit("Too many tokens") ELSE UNCHANGED <<pc, err>>
  /\ UNCHANGED <<classNames, passes, file, tokenLexes>>

\* the return of yyparse were main to call findProdValueAll next
ParseEnd_bind ==
  /\ pc = "yyparse"
  /\ yyin > Len(file.prods)
  /\ pc' = "findProdValueAll"
  /\ ran' = <<"yyparse">>
  /\ UNCHANGED <<classNames, passes, file, yyin, heap, productions, tokenNames, tokenLexes, terminalNames, err>>

\* yyparse returns at the end of the file
ParseEnd ==
  /\ pc = "yyparse"
  /\ yyin > Len(file.prods)
  /\ pc' = "reviseSpelling"
  /\ ran' = <<"yyparse">>
  /\ UNCHANGED <<classNames, passes, file, yyin, heap, productions, tokenNames, tokenLexes, terminalNames, err>>

ReviseSpelling ==
  /\ pc = "reviseSpelling"
  /\ ran' = Append(ran, "reviseSpelling")
  /\ LET res == reviseSpelling(heap, productions, tokenNames)
     IN /\ tokenLexes' = res.tokenLexes
        /\ IF res.bad THEN exit("Bad token spelling in reviseSpelling")
           ELSE pc' = "findMyAtts" /\ UNCHANGED err
  /\ UNCHANGED <<classNames, passes, file, yyin, heap, productions, tokenNames, terminalNames>>

FindMyAtts ==
  /\ pc = "findMyAtts"
  /\ ran' = Append(ran, "findMyAtts")
  /\ LET res == findMyAtts(productions, file.atts)
     IN /\ productions' = res.productions
        /\ IF res.err # "" THEN exit(res.err)
           ELSE pc' = "findProdValueAll" /\ UNCHANGED err
  /\ UNCHANGED <<classNames, passes, file, yyin, heap, tokenNames, tokenLexes, terminalNames>>

FindProdValueAll ==
  /\ pc = "findProdValueAll"
  /\ ran' = Append(ran, "findProdValueAll")
  /\ heap' = findProdValueAll(heap, productions)
  /\ pc' = "findSupertypes"
  /\ UNCHANGED <<classNames, passes, file, yyin, productions, tokenNames, tokenLexes, terminalNames, err>>

FindSupertypes ==
  /\ pc = "findSupertypes"
  /\ ran' = Append(ran, "findSupertypes")
  /\ productions' = findSupertypes(heap, productions)
  /\ pc' = "findAllAncestors"
  /\ UNCHANGED <<classNames, passes, file, yyin, heap, tokenNames, tokenLexes, terminalNames, err>>

FindAllAncestors ==
  /\ pc = "findAllAncestors"
  /\ ran' = Append(ran, "findAllAncestors")
  /\ productions' = findAllAncestors(productions)
  /\ pc' = "findBeInstance"
  /\ UNCHANGED <<classNames, passes, file, yyin, heap, tokenNames, tokenLexes, terminalNames, err>>

FindBeInstance ==
  /\ pc = "findBeInstance"
  /\ ran' = Append(ran, "findBeInstance")
  /\ productions' = findBeInstance(productions)
  /\ pc' = "findOptProds"
  /\ UNCHANGED <<classNames, passes, file, yyin, heap, tokenNames, tokenLexes, terminalNames, err>>

FindOptProds ==
  /\ pc = "findOptProds"
  /\ ran' = Append(ran, "findOptProds")
  /\ LET res == findOptProds(heap, productions)
     IN /\ productions' = res.productions
        /\ IF res.err # "" THEN exit(res.err)
           ELSE pc' = "findAttNamesAll" /\ UNCHANGED err
  /\ UNCHANGED <<classNames, passes, file, yyin, heap, tokenNames, tokenLexes, terminalNames>>

FindAttNamesAll ==
  /\ pc = "findAttNamesAll"
  /\ ran' = Append(ran, "findAttNamesAll")
  /\ LET res == findAttNamesAll(heap, productions)
     IN /\ productions' = res.productions
        /\ IF res.overflow THEN exit("Segmentation fault")
           ELSE pc' = "findMyExps" /\ UNCHANGED err
  /\ UNCHANGED <<classNames, passes, file, yyin, heap, tokenNames, tokenLexes, terminalNames>>

FindMyExps ==
  /\ pc = "findMyExps"
  /\ ran' = Append(ran, "findMyExps")
  /\ LET res == findMyExps(heap, productions)
     IN /\ productions' = res.productions
        /\ IF res.err # "" THEN exit(res.err)
           ELSE pc' = "printCppClasses" /\ UNCHANGED err
  /\ UNCHANGED <<classNames, passes, file, yyin, heap, tokenNames, tokenLexes, terminalNames>>

\* printCppClasses, with the files taken to open.  A class name that does not
\* start with a lower case letter makes recordClass use a row outside
\* classNames: the run either goes on or ends there.
PrintCppClasses ==
  /\ pc = "printCppClasses"
  /\ ran' = Append(ran, "printCppClasses")
  /\ LET toPrint == selectProductions(terminalNames, tokenNames, productions)
         rec == recordClasses(classNames, productions, toPrint)
     IN \E stopAt \in {NULL} \cup {toPrint[i] : i \in 1..Len(toPrint)} :
        \E crash \in {FALSE, rec.outside} :
          IF crash
            THEN /\ exit("Segmentation fault")
                 /\ UNCHANGED <<productions, classNames, passes>>
          ELSE IF rec.full
            THEN /\ exit("Too many classes")
                 /\ classNames' = rec.classNames
                 /\ UNCHANGED <<productions, passes>>
          ELSE LET res == printCppClasses(heap, productions, toPrint, stopAt)
               IN /\ classNames' = rec.classNames
                  /\ productions' = res.productions
                  /\ passes' = res.passes
                  /\ IF res.err # "" THEN exit(res.err)
                     ELSE pc' = "printYacc" /\ UNCHANGED err
  /\ UNCHANGED <<file, yyin, heap, tokenNames, tokenLexes, terminalNames>>

Next ==
  \/ ParseProduction
  \/ ParseEnd
  \/ ReviseSpelling
  \/ FindMyAtts
  \/ FindProdValueAll
  \/ FindSupertypes
  \/ FindAllAncestors
  \/ FindBeInstance
  \/ FindOptProds
  \/ FindAttNamesAll
  \/ FindMyExps
  \/ PrintCppClasses

Spec == Init /\ [][Next]_vars

SpecLattice == InitLattice /\ [][Next]_vars

SpecList == InitList /\ [][Next]_vars

SpecOptional == InitOptional /\ [][Next]_vars

SpecAtts == InitAtts /\ [][Next]_vars

SpecEmit == InitEmit /\ [][Next]_vars

\* the productions of the files of SpecInherit: the supertypes s1 and s2 of t,
\* which is the supertype of u
InheritRules ==
  << CommaRule,
     rule("s1", << <<nt("t")>> >>),
     rule("s2", << <<nt("t")>> >>),
     rule("t", << <<nt("u")>> >>),
     rule("u", << <<oc("("), tm("REALSTRING"), oc(")")>> >>) >>

\* the lines of the attribute blocks of SpecInherit
InheritLines ==
  { line("s1", <<"a">>),
    line("s2", <<"b">>),
    line("t", <<"m">>),
    line("u", <<"k">>),
    lineWithAll("t", <<"m">>, <<"b", "m">>) }

InheritFiles ==
  { [prods |-> InheritRules,
     atts |-> [start |-> TRUE, end |-> TRUE, lines |-> ls]] :
      ls \in SeqsUpTo(InheritLines, MaxInherit) }

InitInherit == InitOn(InheritFiles)

SpecInherit == InitInherit /\ [][Next]_vars

\* the productions of the files of SpecCycle: a and b are each the only
\* subtype of the other, r is a supertype of a with no supertype of its own
CycleRules ==
  { rule("a", << <<nt("b")>> >>),
    rule("b", << <<nt("a")>> >>),
    rule("r", << <<nt("a")>> >>),
    rule("x", << <<oc("("), tm("REALSTRING"), oc(")")>> >>) }

CycleFiles ==
  { [prods |-> <<CommaRule>> \o t, atts |-> NoAtts] : t \in SeqsUpTo(CycleRules, MaxCycle) }

InitCycle == InitOn(CycleFiles)

SpecCycle == InitCycle /\ [][Next]_vars

\* the productions of the files of SpecSpell: x has the keyword KW, which the
\* other productions spell, well or badly.  The lexer is not part of the
\* source; a TWOCHAR it hands to the parser is a letter in its two cases, in
\* either order.
SpellRules ==
  { rule("x", << <<kw("KW"), oc("("), tm("REALSTRING"), oc(")")>> >>),
    rule("KW", << <<oc("x"), tc("Ww")>> >>),
    rule("KW", << <<oc("k")>> >>),
    rule("KW", << <<>> >>),
    rule("KW", << <<oc("k"), tc("wW")>> >>),
    rule("KW", << <<oc("k")>>, <<oc("w")>> >>),
    rule("KW", << <<oc("k"), nt("x")>> >>) }

SpellFiles ==
  { [prods |-> <<CommaRule>> \o t, atts |-> NoAtts] : t \in SeqsUpTo(SpellRules, MaxSpell) }

InitSpell == InitOn(SpellFiles)

SpecSpell == InitSpell /\ [][Next]_vars

\* the productions of the files of SpecTransfer: e and f under the supertype
\* s, f also under the supertype t, in any order, behind the production
\* instance or without it, and optional parents of s and t at the end
TransferRules ==
  { rule("s", << <<nt("e")>>, <<nt("f")>> >>),
    rule("t", << <<nt("f")>> >>),
    rule("e", << <<oc("("), tm("REALSTRING"), oc(")")>> >>),
    rule("f", << <<oc("("), tm("REALSTRING"), oc(")")>> >>) }

TransferFiles ==
  { [prods |-> <<CommaRule>> \o front \o base \o t, atts |-> NoAtts] :
      front \in {<<>>, <<rule("instance", << <<nt("e")>>, <<nt("f")>> >>)>>},
      base \in {b \in [1..4 -> TransferRules] : \A i, j \in 1..4 : b[i] = b[j] => i = j},
      t \in SeqsUpTo({rule("optS", << <<nt("s")>>, <<oc("$")>> >>),
                      rule("optT", << <<nt("t")>>, <<oc("$")>> >>)}, MaxTransfer) }

InitTransfer == InitOn(TransferFiles)

SpecTransfer == InitTransfer /\ [][Next]_vars

\* printYacc, with the file taken to open
PrintYacc ==
  /\ pc = "printYacc"
  /\ ran' = Append(ran, "printYacc")
  /\ \E deep \in {"", YaccRuleFatal} :
       LET message == printYacc(productions, deep)
       IN IF message # "" THEN exit(message)
          ELSE pc' = "printLex" /\ UNCHANGED err
  /\ UNCHANGED <<classNames, passes, file, yyin, heap, productions, tokenNames,
                 tokenLexes, terminalNames>>

\* printLex, with the file taken to open, and the return of main
PrintLex ==
  /\ pc = "printLex"
  /\ ran' = Append(ran, "printLex")
  /\ pc' = "return"
  /\ UNCHANGED <<classNames, passes, file, yyin, heap, productions, tokenNames,
                 tokenLexes, terminalNames, err>>

\* main to its return
NextMain ==
  \/ Next
  \/ PrintYacc
  \/ PrintLex

\* the files of SpecBoundary: c alone, and c before up to MaxFirst productions
\* out of a first production inputFile and what it uses
BoundaryRules ==
  { rule("inputFile", << <<nt("x")>> >>),
    rule("inputFile", << <<kw("KW")>> >>),
    rule("x", << <<kw("KW")>> >>),
    rule("xs", << <<nt("x")>>, <<nt("xs"), nt("x")>> >>) }

BoundaryFiles ==
  { [prods |-> <<CommaRule>> \o t, atts |-> NoAtts] : t \in SeqsUpTo(BoundaryRules, MaxFirst) }

InitBoundary == InitOn(BoundaryFiles)

SpecBoundary == InitBoundary /\ [][NextMain]_vars

(***************************************************************************)
(* The name tables near their capacity: a run calls one of the three       *)
(* record functions, each of which reads and writes its own table only, on *)
(* a table that already holds names.                                       *)
(***************************************************************************)
\* the i-th name a bucket holds at the start: first and two of chars,
\* ascending in i
nameNo(first, chars, i) ==
  first \o SubSeq(chars, (i \div Len(chars)) + 1, (i \div Len(chars)) + 1)
        \o SubSeq(chars, (i % Len(chars)) + 1, (i % Len(chars)) + 1)

heldNames(first, chars, count) == [i \in 1..count |-> nameNo(first, chars, i)]

\* the names the calls record in a bucket of capacity size: one before all
\* the bucket holds, the first it holds, one between its first two, the last a
\* full bucket holds and one after all
namesToRecord(first, chars, size) ==
  {first,
   nameNo(first, chars, 1),
   nameNo(first, chars, 1) \o SubSeq(chars, 1, 1),
   nameNo(first, chars, size),
   first \o SubSeq(chars, Len(chars), Len(chars)) \o SubSeq(chars, Len(chars), Len(chars))
         \o SubSeq(chars, Len(chars), Len(chars))}

tokensToRecord == namesToRecord("K", UpperChars, LETTERSIZE)

terminalsToRecord == namesToRecord("T", UpperChars, LETTERSIZE)

classesToRecord == namesToRecord("k", LowerChars, CLASSSIZE)

\* how many names a bucket of capacity size holds at the start
fills(size) == {0, 1, size - 1, size}

InitNames ==
  /\ file = [prods |-> <<>>, atts |-> NoAtts]
  /\ yyin = 1
  /\ heap = <<expression(0, "c", NULL)>>
  /\ productions = <<>>
  /\ tokenLexes = EmptyTable
  /\ err = ""
  /\ ran = <<>>
  /\ passes = <<>>
  /\ pc \in {"recordToken", "recordTerminal", "recordClass"}
  /\ \E count \in IF pc = "recordToken" THEN fills(LETTERSIZE) ELSE {0} :
       tokenNames = [EmptyTable EXCEPT !["K"] = heldNames("K", UpperChars, count)]
  /\ \E count \in IF pc = "recordTerminal" THEN fills(LETTERSIZE) ELSE {0} :
       terminalNames = heldNames("T", UpperChars, count)
  /\ \E count \in IF pc = "recordClass" THEN fills(CLASSSIZE) ELSE {0} :
       classNames = [[l \in LowerLetters |-> <<>>] EXCEPT
                       !["k"] = heldNames("k", LowerChars, count)]

\* recordToken(tokenName)
RecordToken ==
  /\ pc = "recordToken"
  /\ Len(ran) < MaxCalls
  /\ ran' = Append(ran, "recordToken")
  /\ \E tokenName \in tokensToRecord :
       IF recordOverflows(tokenNames[FirstLetter(tokenName)], tokenName, LETTERSIZE)
         THEN exit("Too many tokens") /\ UNCHANGED tokenNames
       ELSE tokenNames' = recordToken(tokenNames, tokenName) /\ UNCHANGED <<pc, err>>
  /\ UNCHANGED <<classNames, passes, file, yyin, heap, productions, tokenLexes,
                 terminalNames>>

\* recordTerminal(terminalName)
RecordTerminal ==
  /\ pc = "recordTerminal"
  /\ Len(ran) < MaxCalls
  /\ ran' = Append(ran, "recordTerminal")
  /\ \E terminalName \in terminalsToRecord :
       IF recordOverflows(terminalNames, terminalName, LETTERSIZE)
         THEN exit("Too many terminals") /\ UNCHANGED terminalNames
       ELSE terminalNames' = recordTerminal(terminalNames, terminalName)
            /\ UNCHANGED <<pc, err>>
  /\ UNCHANGED <<classNames, passes, file, yyin, heap, productions, tokenNames,
                 tokenLexes>>

\* recordClass(className).  A className that does not start with a lower case
\* letter makes it use a row outside classNames: the call either ends the run
\* or writes where no bucket is.
RecordClass ==
  /\ pc = "recordClass"
  /\ Len(ran) < MaxCalls
  /\ ran' = Append(ran, "recordClass")
  /\ \E className \in classesToRecord \cup {"KW"} :
       IF FirstLetter(className) \notin LowerLetters
         THEN \E crash \in BOOLEAN :
                /\ IF crash THEN exit("Segmentation fault") ELSE UNCHANGED <<pc, err>>
                /\ UNCHANGED classNames
       ELSE IF recordOverflows(classNames[FirstLetter(className)], className, CLASSSIZE)
         THEN exit("Too many classes") /\ UNCHANGED classNames
       ELSE classNames' = recordClass(classNames, className) /\ UNCHANGED <<pc, err>>
  /\ UNCHANGED <<passes, file, yyin, heap, productions, tokenNames, tokenLexes,
                 terminalNames>>

NextNames ==
  \/ RecordToken
  \/ RecordTerminal
  \/ RecordClass

SpecNames == InitNames /\ [][NextNames]_vars

(***************************************************************************)
(* What the properties below speak about.                                  *)
(***************************************************************************)
\* main has made the call and has got past it without a fatal diagnostic
Completed(call) ==
  \E k \in 1..Len(ran) : ran[k] = call /\ (k < Len(ran) \/ pc \notin {"exit", call})

\* the productions of the file that the parser keeps, in the order of the file
Retained == SelectSeq(file.prods, LAMBDA r : r.lhs # "c")

\* the places <<p, d, i>>: expression i of definition d of production p
Places ==
  UNION { UNION { { <<p, d, i>> : i \in 1..Len(productions[p].defs[d]) } :
                  d \in 1..Len(productions[p].defs) } :
          p \in 1..Len(productions) }

\* the expression at a place
At(pl) == heap[productions[pl[1]].defs[pl[2]][pl[3]]]

\* the productions other than p that are named name
OthersNamed(p, name) ==
  {q \in 1..Len(productions) : q # p /\ productions[q].lhs = name}

\* the last of them in the order of the grammar, NULL when there is none
LastOther(p, name) ==
  IF OthersNamed(p, name) = {} THEN NULL
  ELSE CHOOSE q \in OthersNamed(p, name) : \A r \in OthersNamed(p, name) : r <= q

C4_CommaCanonical ==
  Completed("yyparse") =>
    /\ \A p \in 1..Len(productions) : productions[p].lhs # "c"
    /\ \E n \in 1..Len(tokenNames["C"]) : tokenNames["C"][n] = "C"
    /\ Len(productions) = Len(Retained)
    /\ \A pl \in Places :
         (Retained[pl[1]].defs[pl[2]][pl[3]] = nt("c"))
           <=> (productions[pl[1]].defs[pl[2]][pl[3]] = commaExp)
    /\ \A e \in DOMAIN heap \ {commaExp} :
         ~(heap[e].theType = NONTERMINAL /\ heap[e].itemName = "c")

\* the parser has read a file that uses c in two productions ahead of the
\* production c, and both uses are commaExp
C4_Witness ==
  /\ Completed("yyparse")
  /\ file.prods[Len(file.prods)] = CommaRule
  /\ \E pl, pm \in Places :
       /\ pl[1] # pm[1]
       /\ productions[pl[1]].defs[pl[2]][pl[3]] = commaExp
       /\ productions[pm[1]].defs[pm[2]][pm[3]] = commaExp

\* the list kind of a production as C5 states it, read off the tokens of the
\* production in the file
ListKindStated(r) ==
  IF /\ Len(r.defs) = 2
     /\ Len(r.defs[1]) = 1
     /\ Len(r.defs[2]) \in {2, 3}
     /\ r.defs[2][1] = nt(r.lhs)
     /\ r.defs[2][Len(r.defs[2])] = nt(r.defs[1][1].text)
    THEN IF Len(r.defs[2]) = 2 THEN 1
         ELSE IF r.defs[2][2].text = "c" THEN 2 ELSE 0
  ELSE 0

\* the list kind with the lexemes compared and the kinds of the tokens left out
ListKindByLexeme(r) ==
  IF /\ Len(r.defs) = 2
     /\ Len(r.defs[1]) = 1
     /\ Len(r.defs[2]) \in {2, 3}
     /\ r.defs[2][1].text = r.lhs
     /\ r.defs[2][Len(r.defs[2])].text = r.defs[1][1].text
    THEN IF Len(r.defs[2]) = 2 THEN 1
         ELSE IF r.defs[2][2].text = "c" THEN 2 ELSE 0
  ELSE 0

\* C5 as stated: isList of a production is non-zero exactly when it has two
\* definitions D1 and D2, D1 has one expression, D2 has two or three, the
\* first expression of D2 is a NONTERMINAL with the production's name and the
\* last one a NONTERMINAL with the lexeme of D1's expression; it is 2 when D2
\* has three expressions with c in the middle, 1 when D2 has two, 0 otherwise.
C5_ListKindOfNonTerminals ==
  \A p \in 1..Len(productions) : productions[p].isList = ListKindStated(Retained[p])

\* C5 as the code has it: findIsList compares lexemes only, whatever the
\* kinds of the expressions and of the left side; isList is 1 when there are
\* two definitions, D1 has one expression, D2 has two, the first of D2 has the
\* production's name as lexeme and the last of D2 has the lexeme of D1's
\* expression; it is 2 when D2 has three expressions instead and the middle
\* one has lexeme c; it is 0 in every other case.
C5_ListKindOfLexemes ==
  \A p \in 1..Len(productions) : productions[p].isList = ListKindByLexeme(Retained[p])

\* the passes have gone on with a production that is a plain list of a keyword
C5_Witness ==
  /\ Completed("findProdValueAll")
  /\ \E p \in 1..Len(productions) :
       /\ productions[p].isList = 1
       /\ Retained[p].defs[2][2].type = KEYWORD

\* the productions 1..n of the list, as a set
Prods == 1..Len(productions)

\* the production the sole expression of definition d of p is resolved to
Resolved(p, d) == heap[productions[p].defs[d][1]].prodValue

\* every definition of p is one NONTERMINAL resolved to a production that is
\* no list
AllSingleNonLists(p) ==
  \A d \in 1..Len(productions[p].defs) :
    /\ Len(productions[p].defs[d]) = 1
    /\ heap[productions[p].defs[d][1]].theType = NONTERMINAL
    /\ Resolved(p, d) \in Prods
    /\ productions[Resolved(p, d)].isList = 0

\* how often p is to stand on subtypeOf(q)
TimesSuperOf(p, q) ==
  IF AllSingleNonLists(p) /\ productions[p].lhs # "instance"
    THEN Cardinality({d \in 1..Len(productions[p].defs) : Resolved(p, d) = q})
  ELSE 0

\* the productions on subtypeOf(q), as a set
Supers(q) == {productions[q].subtypeOf[k] : k \in 1..Len(productions[q].subtypeOf)}

\* C6: after findSupertypes, isSupertype(P) is true iff every definition of P
\* has exactly one expression, a NONTERMINAL whose resolved production Q
\* exists and has isList = 0; every such P other than instance is appended to
\* subtypeOf(Q) once for each definition that resolves to Q, in the order of
\* the grammar, so every member of a subtypeOf list has isSupertype = true.
C6_SupertypeClassification ==
  Completed("findSupertypes") =>
    /\ \A p \in Prods : productions[p].isSupertype <=> AllSingleNonLists(p)
    /\ \A q \in Prods :
         LET subtypeOf == productions[q].subtypeOf
         IN /\ \A p \in Prods :
                 Cardinality({k \in 1..Len(subtypeOf) : subtypeOf[k] = p})
                   = TimesSuperOf(p, q)
            /\ \A k \in 1..Len(subtypeOf) :
                 /\ subtypeOf[k] \in Prods
                 /\ productions[subtypeOf[k]].isSupertype
                 /\ k > 1 => subtypeOf[k - 1] <= subtypeOf[k]

\* findSupertypes has made one production a supertype of another and has
\* passed over a production one of whose alternatives is a list
C6_Witness ==
  /\ Completed("findSupertypes")
  /\ \E p, q \in Prods : productions[p].isSupertype /\ p \in Supers(q)
  /\ \E p \in Prods :
       /\ ~productions[p].isSupertype
       /\ \A d \in 1..Len(productions[p].defs) :
            Len(productions[p].defs[d]) = 1 /\ Resolved(p, d) \in Prods
       /\ \E d \in 1..Len(productions[p].defs) :
            productions[Resolved(p, d)].isList # 0

\* C7 as stated: after findSupertypes, isInstance(Q) is true exactly for the
\* productions Q that are the resolved production of the sole expression of
\* some definition of the production named instance, and instance is on no
\* subtypeOf list.
C7_InstancesOfInstance ==
  Completed("findSupertypes") =>
    /\ \A q \in Prods :
         productions[q].isInstance <=>
           \E p \in Prods : \E d \in 1..Len(productions[p].defs) :
             /\ productions[p].lhs = "instance"
             /\ Len(productions[p].defs[d]) = 1
             /\ Resolved(p, d) = q
    /\ \A q \in Prods : \A p \in Supers(q) : productions[p].lhs # "instance"

\* C7 as the code has it: after findSupertypes, isInstance(Q) is true exactly
\* for the productions Q that are the resolved production of the sole
\* expression of some definition of a production named instance that has
\* isSupertype = true; when instance is no supertype (one of its definitions
\* is not a single NONTERMINAL resolved to a production that is no list) no
\* production gets isInstance from it.  instance is on no subtypeOf list.
C7_InstancesOfSupertypeInstance ==
  Completed("findSupertypes") =>
    /\ \A q \in Prods :
         productions[q].isInstance <=>
           \E p \in Prods : \E d \in 1..Len(productions[p].defs) :
             /\ productions[p].lhs = "instance"
             /\ productions[p].isSupertype
             /\ Resolved(p, d) = q
    /\ \A q \in Prods : \A p \in Supers(q) : productions[p].lhs # "instance"

\* findSupertypes has set isInstance of an alternative of a supertype named
\* instance and of no production that is none
C7_Witness ==
  /\ Completed("findSupertypes")
  /\ \E q \in Prods : productions[q].isInstance
  /\ \E q \in Prods : ~productions[q].isInstance /\ productions[q].lhs # "instance"
  /\ \E p \in Prods : productions[p].lhs = "instance" /\ productions[p].isSupertype

RECURSIVE Closure(_, _)
\* set S with everything n subtypeOf steps lead to from it
Closure(S, n) ==
  IF n = 0 THEN S
  ELSE Closure(S \cup UNION {Supers(q) : q \in S}, n - 1)

\* the productions one or more subtypeOf steps lead to from p
Reachable(p) == Closure(Supers(p), Len(productions))

\* the first production on subtypeOf(q) that is not in seen
FirstNew(q, seen) ==
  LET subtypeOf == productions[q].subtypeOf
      k == CHOOSE k \in 1..Len(subtypeOf) :
             /\ subtypeOf[k] \notin seen
             /\ \A j \in 1..(k - 1) : subtypeOf[j] \in seen
  IN subtypeOf[k]

\* list anc is in the order in which a depth-first walk from p first meets
\* the productions: each member is the first supertype not met before of the
\* production met last that has one
DepthFirst(p, anc) ==
  \A k \in 1..Len(anc) :
    LET seen == {anc[j] : j \in 1..(k - 1)}
        met(j) == IF j = 0 THEN p ELSE anc[j]
        open == {j \in 0..(k - 1) : Supers(met(j)) \ seen # {}}
    IN /\ open # {}
       /\ anc[k] = FirstNew(met(CHOOSE j \in open : \A i \in open : i <= j), seen)

\* C8: after findAllAncestors, and still after findOptProds, ancestors(P)
\* holds exactly the productions one or more subtypeOf steps lead to from P,
\* none with isOptional 1 or 2, not instance, none twice, in the order in
\* which a depth-first walk first meets them.
C8_LatticeConsistency ==
  Completed("findAllAncestors") =>
    \A p \in Prods :
      LET ancestors == productions[p].ancestors
      IN /\ {ancestors[k] : k \in 1..Len(ancestors)} = Reachable(p)
         /\ \A k \in 1..Len(ancestors) :
              /\ productions[ancestors[k]].isOptional \notin {1, 2}
              /\ productions[ancestors[k]].lhs # "instance"
              /\ \A j \in 1..Len(ancestors) : ancestors[j] = ancestors[k] => j = k
         /\ DepthFirst(p, ancestors)

\* findOptProds has given a production an optional role, and some production
\* has three ancestors of which the second is a supertype of the first and
\* not of the production itself, ahead of the production's own second supertype
C8_Witness ==
  /\ Completed("findOptProds")
  /\ \E p \in Prods : productions[p].isOptional \in {1, 2}
  /\ \E p \in Prods :
       LET ancestors == productions[p].ancestors
       IN /\ Len(ancestors) = 3
          /\ ancestors[2] \notin Supers(p)
          /\ ancestors[2] \in Supers(ancestors[1])
          /\ ancestors[3] \in Supers(p)

\* C9: after findBeInstance, beInstance(P) is non-null iff there is a
\* production Q with isInstance(Q) and P in ancestors(Q); it is then such a Q.
C9_BeInstance ==
  Completed("findBeInstance") =>
    \A p \in Prods :
      LET instances == {q \in Prods : /\ productions[q].isInstance
                                       /\ member(productions[q].ancestors, p)}
      IN /\ productions[p].beInstance # NULL <=> instances # {}
         /\ productions[p].beInstance # NULL => productions[p].beInstance \in instances

\* findBeInstance has set beInstance of an ancestor of an instance and has
\* left it null in a supertype that is no ancestor of an instance
C9_Witness ==
  /\ Completed("findBeInstance")
  /\ \E p, q \in Prods :
       /\ productions[q].isInstance
       /\ member(productions[q].ancestors, p)
       /\ productions[p].beInstance = q
  /\ \E p, q \in Prods :
       /\ member(productions[q].ancestors, p)
       /\ productions[p].beInstance = NULL

\* C10: after findBeInstance a production with isInstance = true has
\* beInstance = null, also in a grammar where an immediate subtype of instance
\* is itself a supertype of another immediate subtype of instance.
C10_InstanceHasNoBeInstance ==
  Completed("findBeInstance") =>
    \A p \in Prods : productions[p].isInstance => productions[p].beInstance = NULL

\* the shape of an optional parent as C11 states it: two definitions of one
\* expression each, one a NONTERMINAL with a resolved production and the
\* other the ONECHAR '$', in either order
OptionalEitherWay(p) ==
  LET defs == productions[p].defs
  IN /\ Len(defs) = 2
     /\ Len(defs[1]) = 1
     /\ Len(defs[2]) = 1
     /\ \E d \in {1, 2} :
          /\ heap[defs[d][1]].theType = NONTERMINAL
          /\ Resolved(p, d) # NULL
          /\ heap[defs[3 - d][1]] = expression(ONECHAR, "$", NULL)

\* the shape with '$' as the second definition and an expression of whatever
\* kind with a resolved production as the first
OptionalDollarLast(p) ==
  LET defs == productions[p].defs
  IN /\ Len(defs) = 2
     /\ Len(defs[1]) = 1
     /\ Len(defs[2]) = 1
     /\ Resolved(p, 1) # NULL
     /\ heap[defs[2][1]].theType = ONECHAR
     /\ heap[defs[2][1]].itemName = "$"

\* findOptProds has treated p as an optional parent: only then has it given
\* p a transferName
TreatedAsParent(p) == productions[p].transferName # ""

\* C11 as stated: findOptProds treats P as an optional parent iff P has two
\* definitions of one expression each, one a NONTERMINAL with a resolved
\* production and the other the ONECHAR '$', whichever comes first; no
\* production of another shape gets isOptional 1 or 2.
C11_OptionalEitherOrder ==
  Completed("findOptProds") =>
    \A p \in Prods :
      /\ TreatedAsParent(p) <=> OptionalEitherWay(p)
      /\ productions[p].isOptional \in {1, 2} => OptionalEitherWay(p)

\* C11 as the code has it: findOptProds treats P as an optional parent iff P
\* has two definitions of one expression each, the second being the ONECHAR
\* '$' and the first an expression of whatever kind with a non-null
\* prodValue; P = '$' | C is not one.  No production of another shape gets
\* isOptional 1 or 2, a transferName or, as a parent, an optProd.
C11_OptionalDollarLast ==
  Completed("findOptProds") =>
    \A p \in Prods :
      /\ TreatedAsParent(p) <=> OptionalDollarLast(p)
      /\ productions[p].isOptional \in {1, 2} => OptionalDollarLast(p)
      /\ OptionalDollarLast(p) =>
           /\ productions[p].isOptional \in {1, 2, 3}
           /\ productions[p].optProd # NULL
           /\ productions[Resolved(p, 1)].isOptional # 0

\* findOptProds has passed over a production with '$' in front and has made
\* an optional parent of one whose first definition is a keyword
C11_Witness ==
  /\ Completed("findOptProds")
  /\ \E p \in Prods :
       /\ OptionalEitherWay(p)
       /\ productions[p].isOptional = 0
       /\ productions[p].optProd = NULL
  /\ \E p \in Prods :
       /\ heap[productions[p].defs[1][1]].theType = KEYWORD
       /\ productions[p].isOptional = 2

\* the optional child of an optional parent p
Child(p) == Resolved(p, 1)

\* the first production in the order of the grammar that is an instance and
\* has c among its ancestors
FirstInstanceBelow(c) ==
  LET below == {d \in Prods : /\ member(productions[d].ancestors, c)
                              /\ productions[d].isInstance}
  IN CHOOSE d \in below : \A other \in below : d <= other

\* C12: after findOptProds, for every optional parent P with child C: when C
\* is an instance, isOptional(P) = 1 and transferName(P) is the name of C;
\* otherwise when beInstance(C) is non-null, isOptional(P) = 1 and
\* transferName(P) is the name of the first instance in the order of the
\* grammar that has C among its ancestors; otherwise isOptional(P) = 2 and
\* transferName(P) is the name of C.  In all cases isOptional(C) = 3,
\* optProd(C) = P and optProd(P) = C.
C12_OptionalParentAndChild ==
  Completed("findOptProds") =>
    \A p \in Prods : OptionalDollarLast(p) =>
      LET c == Child(p)
      IN /\ IF productions[c].isInstance
              THEN /\ productions[p].isOptional = 1
                   /\ productions[p].transferName = productions[c].lhs
            ELSE IF productions[c].beInstance # NULL
              THEN /\ productions[p].isOptional = 1
                   /\ productions[p].transferName =
                        productions[FirstInstanceBelow(c)].lhs
            ELSE /\ productions[p].isOptional = 2
                 /\ productions[p].transferName = productions[c].lhs
         /\ productions[c].isOptional = 3
         /\ productions[c].optProd = p
         /\ productions[p].optProd = c

\* C13: after findOptProds, isOptional(P) = 3 iff some production Q has
\* isOptional(Q) in {1, 2} and optProd(Q) = P, in every grammar, also one
\* where the child of an optional parent is itself an optional parent that
\* comes later in the list of productions.
C13_OptionalDuality ==
  Completed("findOptProds") =>
    \A p \in Prods :
      productions[p].isOptional = 3 <=>
        \E q \in Prods : /\ productions[q].isOptional \in {1, 2}
                         /\ productions[q].optProd = p

\* C14 as stated: every production with isList # 0 has isSupertype = false
\* and isOptional = 0: a list is never a supertype, never an optional parent
\* and never an optional child, not even when another production has the
\* form optXs = xs | '$'.
C14_ListHasNoRole ==
  Completed("findOptProds") =>
    \A p \in Prods : productions[p].isList # 0 =>
      /\ ~productions[p].isSupertype
      /\ productions[p].isOptional = 0

\* C14 as the code has it: a production with isList # 0 is never a supertype
\* and never an optional parent, and it is an optional child (isOptional = 3,
\* optProd set) exactly when some production has it as the first of two
\* one-expression definitions of which the second is '$'.
C14_ListIsChildOnly ==
  Completed("findOptProds") =>
    \A p \in Prods : productions[p].isList # 0 =>
      LET parents == {q \in Prods : OptionalDollarLast(q) /\ Child(q) = p}
      IN /\ ~productions[p].isSupertype
         /\ ~OptionalDollarLast(p)
         /\ ~TreatedAsParent(p)
         /\ productions[p].isOptional = (IF parents = {} THEN 0 ELSE 3)
         /\ parents = {} => productions[p].optProd = NULL
         /\ parents # {} => productions[p].optProd \in parents

\* findOptProds has made an optional child of a list
C14_Witness ==
  /\ Completed("findOptProds")
  /\ \E p, q \in Prods :
       /\ productions[p].isList # 0
       /\ productions[p].isOptional = 3
       /\ productions[p].optProd = q
       /\ productions[q].isOptional = 2
       /\ productions[q].optProd = p

\* C15: whenever findMyExps completes without a fatal message, every
\* production has as many myExps as myAtts; each of the myExps is a TERMINAL
\* or NONTERMINAL expression.
C15_MyExpsMatchMyAtts ==
  Completed("findMyExps") =>
    \A p \in Prods :
      /\ Len(productions[p].myExps) = Len(productions[p].myAtts)
      /\ \A i \in 1..Len(productions[p].myExps) :
           heap[productions[p].myExps[i]].theType \in {TERMINAL, NONTERMINAL}

\* findMyExps has completed with a production of two attributes of its own
\* under a supertype with one, and a production without attributes
C15_Witness ==
  /\ Completed("findMyExps")
  /\ \E p, q, r \in Prods :
       /\ Len(productions[p].myExps) = 2
       /\ Len(productions[p].attNames) = 3
       /\ Len(productions[q].myExps) = 1
       /\ member(productions[p].subtypeOf, q)
       /\ productions[r].myAtts = <<>>

RECURSIVE GivenAttNames(_, _)
\* the names the first i lines of the attribute block give after a second
\* colon for the production named name, in the order of the lines
GivenAttNames(name, i) ==
  IF i = 0 THEN <<>>
  ELSE LET l == file.atts.lines[i]
       IN GivenAttNames(name, i - 1)
            \o (IF l.name = name /\ l.second THEN l.attNames ELSE <<>>)

\* the attribute block has a line with a second colon for the production
HasGivenAttNames(name) ==
  \E i \in 1..Len(file.atts.lines) :
    file.atts.lines[i].name = name /\ file.atts.lines[i].second

\* C16: when the attribute block gives a production an explicit full list of
\* attributes (a second colon), then after findAttNamesAll the attNames of the
\* production are exactly that list, both when the production has supertypes
\* and when its subtypeOf is empty.
C16_OverridePrecedence ==
  Completed("findAttNamesAll") =>
    \A p \in Prods : HasGivenAttNames(productions[p].lhs) =>
      productions[p].attNames =
        GivenAttNames(productions[p].lhs, Len(file.atts.lines))

RECURSIVE Flat(_, _)
\* the productions of the first n passes, in the order they were printed
Flat(perPass, n) == IF n = 0 THEN <<>> ELSE Flat(perPass, n - 1) \o perPass[n]

\* the order in which printCppClasses has set wasPrinted
Emitted == Flat(passes, Len(passes))

\* the place of production p in that order, 0 when it was not printed
EmittedAt(p) ==
  IF \E k \in 1..Len(Emitted) : Emitted[k] = p
    THEN CHOOSE k \in 1..Len(Emitted) : Emitted[k] = p
  ELSE 0

\* C17: in the order in which printCppClasses sets wasPrinted, every
\* production of subtypeOf(P) comes before P, and a production with
\* isInstance comes after the production instance; wasPrinted is set for the
\* productions of that order and no others, each once.
C17_EmitOrder ==
  /\ \A p \in Prods : productions[p].wasPrinted <=> EmittedAt(p) # 0
  /\ \A k, l \in 1..Len(Emitted) : Emitted[k] = Emitted[l] => k = l
  /\ \A k \in 1..Len(Emitted) :
       LET p == Emitted[k]
       IN /\ \A s \in 1..Len(productions[p].subtypeOf) :
               LET at == EmittedAt(productions[p].subtypeOf[s])
               IN at # 0 /\ at < k
          /\ productions[p].isInstance =>
               \E l \in 1..(k - 1) : productions[Emitted[l]].lhs = "instance"

\* printCppClasses has returned after it printed an instance with a supertype
\* that comes behind it in the grammar, in a later pass than the supertype
C17_Witness ==
  /\ Completed("printCppClasses")
  /\ \E p, q \in Prods :
       /\ productions[p].isInstance
       /\ member(productions[p].subtypeOf, q)
       /\ p < q
       /\ EmittedAt(q) < EmittedAt(p)
       /\ Len(passes) >= 3

\* the productions selectProductions puts on toPrint
Selected ==
  {p \in Prods : selected(terminalNames, tokenNames, productions, p)}

\* the productions that must be printed before p: its supertypes, and the
\* production instance when p is an instance
Needs(p) ==
  Supers(p) \cup (IF productions[p].isInstance
                    THEN {q \in Prods : productions[q].lhs = "instance"}
                  ELSE {})

RECURSIVE Grow(_)
\* the least set that holds every selected production whose needs it holds
Grow(S) ==
  LET T == S \cup {p \in Selected : Needs(p) \subseteq S}
  IN IF T = S THEN S ELSE Grow(T)

Printable == Grow({})

RECURSIVE NeedsClosure(_, _)
NeedsClosure(S, n) ==
  IF n = 0 THEN S
  ELSE NeedsClosure(S \cup UNION {Needs(q) : q \in S}, n - 1)

\* the productions one or more steps of Needs lead to from p
NeededBy(p) == NeedsClosure(Needs(p), Len(productions))

\* the subtypeOf lists have a cycle
SubtypeCycle == \E p \in Prods : p \in Reachable(p)

LoopFound == pc = "exit" /\ err = "loop found in productions"

\* C18 as stated: "loop found in productions" only if the subtypeOf lists
\* have a cycle; without one, when no other fatal message ends the run, every
\* selected production is printed within totalToPrint passes.
C18_LoopOnlyOnCycle ==
  /\ LoopFound => SubtypeCycle
  /\ (Completed("printCppClasses") \/ LoopFound) /\ ~SubtypeCycle =>
       /\ \A p \in Selected : productions[p].wasPrinted
       /\ Len(passes) <= Cardinality(Selected)

\* C18 as the code has it: "loop found in productions" is the message exactly
\* when, no other fatal message having ended the run, some selected production
\* can never be printed: one that needs, in one or more steps over subtypeOf
\* and from an instance to the production instance, a production that is not
\* selected or that needs itself.  When printCppClasses returns, every
\* selected production was printed, within totalToPrint passes.
C18_LoopFoundWhenBlocked ==
  /\ LoopFound =>
       /\ Selected \ Printable # {}
       /\ \A p \in Selected :
            /\ productions[p].wasPrinted <=> p \in Printable
            /\ p \notin Printable <=>
                 \E q \in NeededBy(p) \cup {p} : q \notin Selected \/ q \in NeededBy(q)
  /\ Completed("printCppClasses") =>
       /\ Selected \subseteq Printable
       /\ \A p \in Prods : productions[p].wasPrinted <=> p \in Selected
       /\ Len(passes) <= Cardinality(Selected)
  /\ pc = "exit" /\ (\E k \in 1..Len(ran) : ran[k] = "printCppClasses")
       /\ Selected \subseteq Printable => ~LoopFound

\* printCppClasses has left with "loop found in productions" where the
\* subtypeOf lists have no cycle: a production waits for a supertype that is
\* not selected
C18_Witness ==
  /\ LoopFound
  /\ ~SubtypeCycle
  /\ \E p \in Selected : \E q \in Supers(p) : q \notin Selected

\* s is the front of t
IsPrefix(s, t) == Len(s) <= Len(t) /\ \A i \in 1..Len(s) : s[i] = t[i]

\* the order of the passes as C20 states it, binding first after the parse
OrderBindFirst ==
  << "yyparse", "findProdValueAll", "reviseSpelling", "findMyAtts",
     "findSupertypes", "findAllAncestors", "findBeInstance", "findOptProds",
     "findAttNamesAll", "findMyExps", "printCppClasses" >>

\* the order of the calls of main
OrderOfMain ==
  << "yyparse", "reviseSpelling", "findMyAtts", "findProdValueAll",
     "findSupertypes", "findAllAncestors", "findBeInstance", "findOptProds",
     "findAttNamesAll", "findMyExps", "printCppClasses" >>

\* isInstance and beInstance of every production stay as they are in a step
InstanceFieldsKept ==
  /\ Len(productions') = Len(productions)
  /\ \A p \in Prods :
       /\ productions'[p].isInstance = productions[p].isInstance
       /\ productions'[p].beInstance = productions[p].beInstance

\* C20 as stated: main runs parse, bind, refine-spelling, read-own-atts,
\* classify-supertypes, ancestors, be-instance, classify-optionals, full-atts,
\* own-exps, emit in this order: binding comes before the spelling refinement
\* and before the attribute block is read.
C20_BindFirst == IsPrefix(ran, OrderBindFirst)

\* C20 as the code has it: main runs parse (with the list classification),
\* refine-spelling, read-own-atts, bind, classify-supertypes, ancestors,
\* be-instance, classify-optionals, full-atts, own-exps, emit in this order:
\* binding comes after the spelling refinement and after the attribute block
\* is read; isList is set when the parse ends and, once findBeInstance has
\* returned, no later pass changes isInstance or beInstance.
C20_PassOrder ==
  /\ [](IsPrefix(ran, OrderOfMain))
  /\ [][Completed("findBeInstance") => InstanceFieldsKept]_vars
  /\ [][Completed("yyparse") =>
          \A p \in Prods : productions'[p].isList = productions[p].isList]_vars

\* main has made all its calls up to printCppClasses, which has returned, on
\* a grammar with a list and an attribute line
C20_Witness ==
  /\ ran = OrderOfMain
  /\ pc = "printYacc"
  /\ \E p \in Prods : productions[p].isList # 0
  /\ \E p \in Prods : productions[p].myAtts # <<>>

(***************************************************************************)
(* C19                                                                     *)
(***************************************************************************)
\* the non-null entries of the array are its first ones
Contiguous(letterNames, size) ==
  \A k \in 1..(size - 1) : letterNames[k] # "" => letterNames[k - 1] # ""

\* strictly ascending in strcmp order
Ascending(names) ==
  \A i \in 1..(Len(names) - 1) : strcmp(names[i], names[i + 1]) < 0

NamesIn(names) == {names[i] : i \in 1..Len(names)}

\* what the read of letterNames[-1] may give: a null pointer or a name
ReadBefore == {"", "Zzz"}

\* one call that records name in the bucket names of capacity size
RecordsWell(names, name, size) ==
  LET res == recordInLetterNames(letterNamesOf(names, size), name, size, "")
      after == namesOf(res.letterNames, size)
  IN /\ \A before \in ReadBefore :
          recordInLetterNames(letterNamesOf(names, size), name, size, before) = res
     /\ res.full <=> (name \notin NamesIn(names) /\ Len(names) = size)
     /\ res.full => res.letterNames = letterNamesOf(names, size)
     /\ ~res.full =>
          /\ Contiguous(res.letterNames, size)
          /\ Ascending(after)
          /\ NamesIn(after) = NamesIn(names) \cup {name}
     /\ res.full = recordOverflows(names, name, size)
     /\ ~res.full => after = recordName(names, name, size)

\* C19: after any calls of recordToken, recordTerminal and recordClass that did
\* not exit, every bucket holds at most its capacity of names in strictly
\* ascending strcmp order, and one more call leaves the array of its bucket a
\* contiguous prefix of non-null entries in that order holding the names held
\* before and the name recorded, but for a new name and a bucket that holds
\* its capacity (LETTERSIZE, CLASSSIZE for classes), where the call exits with
\* "Too many ..." and the array is as it was.
C19_NameTableInsertion ==
  /\ \A l \in Letters :
       /\ Len(tokenNames[l]) <= LETTERSIZE
       /\ Ascending(tokenNames[l])
       /\ \A name \in {n \in tokensToRecord : FirstLetter(n) = l} :
            pc # "exit" => RecordsWell(tokenNames[l], name, LETTERSIZE)
  /\ Len(terminalNames) <= LETTERSIZE
  /\ Ascending(terminalNames)
  /\ \A name \in terminalsToRecord :
       pc # "exit" => RecordsWell(terminalNames, name, LETTERSIZE)
  /\ \A l \in LowerLetters :
       /\ Len(classNames[l]) <= CLASSSIZE
       /\ Ascending(classNames[l])
       /\ \A name \in {n \in classesToRecord : FirstLetter(n) = l} :
            pc # "exit" => RecordsWell(classNames[l], name, CLASSSIZE)
  /\ err = "Too many tokens" => Len(tokenNames["K"]) = LETTERSIZE
  /\ err = "Too many terminals" => Len(terminalNames) = LETTERSIZE
  /\ err = "Too many classes" => Len(classNames["k"]) = CLASSSIZE

\* a name was put between the names of a bucket one short of its capacity,
\* and the next new name made recordClass exit
C19_Witness ==
  /\ err = "Too many classes"
  /\ ran = <<"recordClass", "recordClass">>
  /\ Len(classNames["k"]) = CLASSSIZE
  /\ nameNo("k", LowerChars, 1) \o "a" \in NamesIn(classNames["k"])

(***************************************************************************)
(* C21                                                                     *)
(***************************************************************************)
\* the file holds c = ',' and nothing else: no production is retained
NoProductions == file.prods = <<CommaRule>>

\* C21: for a grammar without retained productions (and with both attribute
\* lines) the run never ends in a fatal message or a fault, and main returns
\* once printLex has run.
C21_EmptyGrammarSucceeds ==
  NoProductions =>
    /\ err = ""
    /\ pc # "exit"
    /\ Completed("printLex") => pc = "return"

(***************************************************************************)
(* C22, C23                                                                *)
(***************************************************************************)
\* the traversal of findAttNamesAll told with a mark on every production it
\* has reached: first[p] is the supertype through which p was first reached
\* (0 before that) and names[p] the attNames of p were only the first
\* traversal that reaches p to write them
RECURSIVE FirstVisitFrom(_, _, _, _)
FirstVisitFrom(st, super, d, depth) ==
  IF d > Len(productions[super].defs) \/ depth > Len(productions) THEN st
  ELSE LET sub == heap[productions[super].defs[d][1]].prodValue
           reached ==
             IF st.first[sub] # 0 THEN st
             ELSE [first |-> [st.first EXCEPT ![sub] = super],
                   names |-> [st.names EXCEPT ![sub] =
                                IF @ = <<>>
                                  THEN st.names[super] \o productions[sub].myAtts
                                ELSE @]]
           below ==
             IF productions[sub].isSupertype
               THEN FirstVisitFrom(reached, sub, 1, depth + 1)
             ELSE reached
       IN FirstVisitFrom(below, super, d + 1, depth)

RECURSIVE FirstVisitAll(_, _)
FirstVisitAll(st, p) ==
  IF p > Len(productions) THEN st
  ELSE IF productions[p].lhs = "instance" \/ productions[p].subtypeOf # <<>>
    THEN FirstVisitAll(st, p + 1)
  ELSE LET own == [st EXCEPT !.names[p] = @ \o productions[p].myAtts]
       IN FirstVisitAll(IF productions[p].isSupertype
                          THEN FirstVisitFrom(own, p, 1, 1)
                        ELSE own,
                        p + 1)

FirstVisit ==
  FirstVisitAll([first |-> [p \in Prods |-> 0],
                 names |-> [p \in Prods |->
                              GivenAttNames(productions[p].lhs, Len(file.atts.lines))]],
                1)

\* C22: after findAttNamesAll, a production without a line that gives its
\* attNames, reached by findAttNamesOne as a subtype, has the attNames of the
\* supertype through which it was first reached followed by its own myAtts;
\* one with empty subtypeOf (other than instance) has its own myAtts.
C22_FullAttributePropagation ==
  Completed("findAttNamesAll") =>
    \A p \in Prods : ~HasGivenAttNames(productions[p].lhs) =>
      /\ FirstVisit.first[p] # 0 =>
           productions[p].attNames =
             productions[FirstVisit.first[p]].attNames \o productions[p].myAtts
      /\ (productions[p].subtypeOf = <<>> /\ productions[p].lhs # "instance") =>
           productions[p].attNames = productions[p].myAtts

\* C23: after findAttNamesAll, the attNames of every production reached as a
\* subtype are those the first traversal that reached it left, whatever the
\* later traversals found, also when the first one left them empty.
C23_OnlyFirstTraversalWrites ==
  Completed("findAttNamesAll") =>
    \A p \in Prods : FirstVisit.first[p] # 0 =>
      productions[p].attNames = FirstVisit.names[p]

(***************************************************************************)
(* C24                                                                     *)
(***************************************************************************)
\* C24: on every grammar whose subtypeOf lists have a cycle, whether or not
\* a supertype with empty subtypeOf leads to the cycle, findAllAncestors and
\* findAttNamesAll return and the run ends in printCppClasses with "loop
\* found in productions" (a fatal message of a class member printer, which
\* cycles have no part in, set aside).
C24_CyclesEndInLoopFound ==
  SubtypeCycle /\ pc = "exit" /\ err # ClassMemberFatal =>
    /\ Completed("findAllAncestors")
    /\ Completed("findAttNamesAll")
    /\ LoopFound

(***************************************************************************)
(* C25, C26                                                                *)
(***************************************************************************)
\* the production findMyExps takes the expressions and attNames from for p
SourceOf(p) ==
  IF productions[p].isInstance THEN p
  ELSE IF productions[p].beInstance # NULL THEN productions[p].beInstance
  ELSE p

\* the TERMINAL and NONTERMINAL expressions of the first definition of s
AttExps(s) ==
  SelectSeq(productions[s].defs[1],
            LAMBDA e : heap[e].theType = TERMINAL \/ heap[e].theType = NONTERMINAL)

\* the places of attNames(s) that hold name
PlacesOf(s, name) ==
  {i \in 1..Len(productions[s].attNames) : same(productions[s].attNames[i], name)}

\* myAtts(p) are attNames(s) from place i on, and myExps(p) are the
\* TERMINAL and NONTERMINAL expressions of s at the same places
AlignedAt(p, s, i) ==
  /\ Len(productions[p].myExps) = Len(productions[p].myAtts)
  /\ \A j \in 0..(Len(productions[p].myAtts) - 1) :
       /\ i + j <= Len(productions[s].attNames)
       /\ same(productions[s].attNames[i + j], productions[p].myAtts[j + 1])
       /\ i + j <= Len(AttExps(s))
       /\ productions[p].myExps[j + 1] = AttExps(s)[i + j]

\* C25: when findMyExps has returned, every production P with myAtts has,
\* with S its source (P if isInstance(P), else beInstance(P) if not null,
\* else P), X the TERMINAL and NONTERMINAL expressions of the first
\* definition of S and A = attNames(S), a first place i of A that holds the
\* first of myAtts(P), and from there on A[i + j] is myAtts(P)[j] and
\* myExps(P)[j] is X[i + j].
C25_AlignmentKeepsPositions ==
  Completed("findMyExps") =>
    \A p \in Prods :
      productions[p].myAtts # <<>> =>
        /\ PlacesOf(SourceOf(p), productions[p].myAtts[1]) # {}
        /\ AlignedAt(p, SourceOf(p),
                     leastOf(PlacesOf(SourceOf(p), productions[p].myAtts[1])))

\* findMyExps has returned with a production whose myAtts start behind the
\* first of the attNames of its source, and whose myExps are not the
\* expressions one apart in the definition
C25_Witness ==
  /\ Completed("findMyExps")
  /\ \E p \in Prods :
       /\ Len(productions[p].myAtts) >= 2
       /\ leastOf(PlacesOf(SourceOf(p), productions[p].myAtts[1])) > 1
       /\ Len(AttExps(SourceOf(p))) < Len(productions[SourceOf(p)].defs[1])
       /\ productions[p].myExps[1] # productions[SourceOf(p)].defs[1][1]

\* the messages findMyExps leaves with
AlignmentFatals ==
  { "Not enough expressions to match attributes",
    "Not enough attNames to match myAtts",
    "Matching attribute names differ" }

\* findMyExps has run and has left production p, which has myAtts, without
\* the myExps of C25
Unaligned(p) ==
  /\ productions[p].myAtts # <<>>
  /\ \/ PlacesOf(SourceOf(p), productions[p].myAtts[1]) = {}
     \/ ~AlignedAt(p, SourceOf(p),
                   leastOf(PlacesOf(SourceOf(p), productions[p].myAtts[1])))

\* C26: whenever findMyExps cannot complete the alignment for a production
\* with myAtts, the run ends in findMyExps with one of its three fatal
\* messages; findMyExps never ends the run in another way, such as by
\* stepping from the null cell behind the last expression.
C26_AlignmentFailuresReported ==
  /\ pc = "exit" /\ ran[Len(ran)] = "findMyExps" => err \in AlignmentFatals
  /\ (\E k \in 1..Len(ran) : ran[k] = "findMyExps") /\ (\E p \in Prods : Unaligned(p)) =>
       pc = "exit" /\ ran[Len(ran)] = "findMyExps" /\ err \in AlignmentFatals

(***************************************************************************)
(* C27                                                                     *)
(***************************************************************************)
\* the productions named name
Named(name) == {p \in Prods : same(productions[p].lhs, name)}

RECURSIVE FirstChars(_, _)
\* the first characters of the expressions exps from expression i on
FirstChars(exps, i) ==
  IF i > Len(exps) THEN ""
  ELSE SubSeq(heap[exps[i]].itemName, 1, 1) \o FirstChars(exps, i + 1)

\* text is an upper case letter followed by the same letter in lower case
UpperLowerPair(text) ==
  /\ Len(text) = 2
  /\ CharAt(text, 0) >= CharCode("A")
  /\ CharAt(text, 0) <= CharCode("Z")
  /\ CharAt(text, 1) = CharAt(text, 0) + (CharCode("a") - CharCode("A"))

\* production p does not spell a keyword: it has no or several definitions,
\* or an expression that is neither ONECHAR nor TWOCHAR, or a TWOCHAR that
\* is no upper and lower case pair
BadSpelling(p) ==
  \/ Len(productions[p].defs) # 1
  \/ \E i \in 1..Len(productions[p].defs[1]) :
       LET exp == heap[productions[p].defs[1][i]]
       IN \/ exp.theType \notin {ONECHAR, TWOCHAR}
          \/ exp.theType = TWOCHAR /\ ~UpperLowerPair(exp.itemName)

\* the places <<k, n>> of the keyword names
KeywordPlaces == UNION {{<<k, n>> : n \in 1..Len(tokenNames[k])} : k \in Letters}

\* C27: when reviseSpelling has returned, tokenLexes[k][n] is set wherever
\* tokenNames[k][n] is a keyword K; it is K when no production is named K
\* and otherwise the first characters, in order, of the expressions of the
\* one definition of the production named K (the last one in the file when
\* several are).  A production named as a keyword that has no or several
\* definitions, an expression that is neither ONECHAR nor TWOCHAR, or a
\* TWOCHAR that is no upper and lower case pair of one letter ends the run
\* in reviseSpelling with "Bad token spelling".
C27_KeywordSpelling ==
  /\ Completed("reviseSpelling") =>
       \A place \in KeywordPlaces :
         LET k == place[1]
             n == place[2]
             named == Named(tokenNames[k][n])
         IN /\ n <= Len(tokenLexes[k])
            /\ named = {} => tokenLexes[k][n] = tokenNames[k][n]
            /\ named # {} =>
                 LET p == CHOOSE p \in named : \A q \in named : q <= p
                 IN /\ Len(productions[p].defs) = 1
                    /\ tokenLexes[k][n] = FirstChars(productions[p].defs[1], 1)
  /\ (\E i \in 1..Len(ran) : ran[i] = "reviseSpelling")
       /\ (\E place \in KeywordPlaces :
             \E p \in Named(tokenNames[place[1]][place[2]]) : BadSpelling(p)) =>
         /\ pc = "exit"
         /\ ran[Len(ran)] = "reviseSpelling"
         /\ err = "Bad token spelling in reviseSpelling"

\* reviseSpelling has returned with a keyword spelled by the second of two
\* productions, one of them with a TWOCHAR, and a keyword no production is
\* named as
C27_Witness ==
  /\ Completed("reviseSpelling")
  /\ \E place \in KeywordPlaces :
       /\ Cardinality(Named(tokenNames[place[1]][place[2]])) = 2
       /\ tokenLexes[place[1]][place[2]] \in {"xW", "k"}
       /\ \E p \in Named(tokenNames[place[1]][place[2]]) :
            \E i \in 1..Len(productions[p].defs[1]) :
              heap[productions[p].defs[1][i]].theType = TWOCHAR
  /\ \E place \in KeywordPlaces :
       /\ Named(tokenNames[place[1]][place[2]]) = {}
       /\ tokenLexes[place[1]][place[2]] = tokenNames[place[1]][place[2]]

(***************************************************************************)
(* C28                                                                     *)
(***************************************************************************)
\* name is in the terminal-name table
IsTerminalName(name) == \E n \in 1..Len(terminalNames) : terminalNames[n] = name

\* name is in the keyword-name table
IsKeywordName(name) ==
  \E k \in Letters : \E n \in 1..Len(tokenNames[k]) : tokenNames[k][n] = name

\* the productions C28 has on toPrint
Emittable ==
  {p \in Prods :
     /\ ~IsTerminalName(productions[p].lhs)
     /\ ~IsKeywordName(productions[p].lhs)
     /\ productions[p].isList = 0
     /\ productions[p].lhs # "instancePlus"
     /\ productions[p].isOptional \notin {1, 2}}

\* the list selectProductions builds when printCppClasses calls it
ToPrint == selectProductions(terminalNames, tokenNames, productions)

TransferCalls ==
  {pair \in Prods \X Prods :
     /\ optionalShape(heap, productions, pair[1])
     /\ pair[2] = Resolved(pair[1], 1)
     /\ ~productions[pair[2]].isInstance
     /\ productions[pair[2]].beInstance # NULL}

\* C29: findOptProds never leaves with "did not find transferName"; for
\* every call findTransferName(P, C) it makes, some production D has
\* isInstance(D) and C among ancestors(D), and transferName(P) is the name
\* of beInstance(C).
C29_TransferNameIsBeInstance ==
  /\ err # "did not find transferName"
  /\ Completed("findOptProds") =>
       \A pair \in TransferCalls :
         /\ \E d \in Prods : /\ productions[d].isInstance
                             /\ member(productions[d].ancestors, pair[2])
         /\ productions[pair[1]].transferName =
              productions[productions[pair[2]].beInstance].lhs

\* findOptProds has returned after a call of findTransferName for a child
\* with two instances below it
C29_Witness ==
  /\ Completed("findOptProds")
  /\ \E pair \in TransferCalls :
       /\ productions[pair[1]].isOptional = 1
       /\ productions[pair[1]].transferName # productions[pair[2]].lhs
       /\ \E d, e \in Prods :
            /\ d # e
            /\ productions[d].isInstance
            /\ productions[e].isInstance
            /\ member(productions[d].ancestors, pair[2])
            /\ member(productions[e].ancestors, pair[2])

(***************************************************************************)
(* C30                                                                     *)
(***************************************************************************)
\* C30: after findOptProds, every production P with isOptional(P) 1 or 2 has
\* a child C = optProd(P) with isOptional(C) = 3 and optProd(C) = P, in every
\* grammar, also one where two optional parents have the same child and one
\* where an optional parent is the child of another optional parent.
C30_OptPeersMutual ==
  Completed("findOptProds") =>
    \A p \in Prods :
      productions[p].isOptional \in {1, 2} =>
        /\ productions[p].optProd # NULL
        /\ productions[productions[p].optProd].isOptional = 3
        /\ productions[productions[p].optProd].optProd = p

====
